---- MODULE Spec2Model ----
(***************************************************************************)
(* A model of the rustray renderer: the scene container and its BVH, the   *)
(* tiled render executors, and the mixture PDF.  Coordinates, ray          *)
(* parameters and weights are exact (integers and integer fractions); the  *)
(* f32 special values that the slab test relies on (infinities, NaN,       *)
(* f32::MAX) are kept as distinguished values.                             *)
(***************************************************************************)
EXTENDS Integers, Sequences, FiniteSets, TLC

VARIABLES
    objects,     \* Scene.objects.objects: the renderables not (yet) owned by a BVH
    list_bbox,   \* Scene.objects.bbox
    bvh,         \* Scene.bvh: NoBvh or [root, objects]
    probe,       \* the last nearest-hit query and its answer
    render,      \* the Render handed to the executor: width, height, samples
    executor,    \* "single" (raytrace), "rayon" (raytrace_concurrent), "threaded"
    num_threads, \* num_cpus::get()
    pc,          \* where the executor is
    bands,       \* the ChunkBounds made so far, one per worker
    worker,      \* per band: state, thread, next row y, data rendered so far
    chunks,      \* the ChunkOutputs the executor has collected
    image,       \* the assembled buffer, or NoImage
    draws,       \* who drew from which random source, for which band
    mixes,       \* MixturePDF.mixes: the stored weight of each component
    supplied,    \* the weight each add call was given
    total_seen,  \* the total_weight the last balance_weights computed
    path,        \* the light path of one camera ray: where it is, what it has done
    call         \* the last call of a function of the program: its inputs and result

scene_vars == <<objects, list_bbox, bvh, probe>>
render_vars == <<render, executor, num_threads, pc, bands, worker, chunks, image, draws>>
mix_vars == <<mixes, supplied, total_seen>>
rest_vars == <<path, call>>
vars == <<scene_vars, render_vars, mix_vars, rest_vars>>

(***************************************************************************)
(* Numbers                                                                 *)
(***************************************************************************)
F32Max == 1000000
Infinity == 2000000
NaN == Infinity + 1

Min2(a, b) == IF a < b THEN a ELSE b
Max2(a, b) == IF a > b THEN a ELSE b

\* f32::max / f32::min: a NaN operand is ignored
FMax(a, b) == IF a = NaN THEN b ELSE IF b = NaN THEN a ELSE Max2(a, b)
FMin(a, b) == IF a = NaN THEN b ELSE IF b = NaN THEN a ELSE Min2(a, b)

\* a - o where a may be an infinity
FSub(a, o) == IF a = Infinity \/ a = -Infinity THEN a ELSE a - o

\* x * (1.0 / d) for a direction component d in {-1, 0, 1}: 1/0 is +inf, and
\* 0 * inf is NaN
FMulInv(x, d) ==
    IF d = 0
    THEN IF x > 0 THEN Infinity ELSE IF x < 0 THEN -Infinity ELSE NaN
    ELSE x * d

Sgn(a) == IF a > 0 THEN 1 ELSE IF a < 0 THEN -1 ELSE 0

(***************************************************************************)
(* Vec3                                                                    *)
(***************************************************************************)
Vec3(x, y, z) == <<x, y, z>>
VAdd(a, b) == <<a[1] + b[1], a[2] + b[2], a[3] + b[3]>>
VSub(a, b) == <<a[1] - b[1], a[2] - b[2], a[3] - b[3]>>
VScale(a, k) == <<a[1] * k, a[2] * k, a[3] * k>>
Dot(a, b) == a[1] * b[1] + a[2] * b[2] + a[3] * b[3]
Cross(a, b) ==
    <<a[2] * b[3] - a[3] * b[2], a[3] * b[1] - a[1] * b[3], a[1] * b[2] - a[2] * b[1]>>
\* normalize, for the axis-parallel vectors of the model
Normalize(a) == <<Sgn(a[1]), Sgn(a[2]), Sgn(a[3])>>
PointAt(ray, t) == VAdd(ray.origin, VScale(ray.direction, t))

(***************************************************************************)
(* Interval and BBox                                                       *)
(***************************************************************************)
Interval(lo, hi) == [min |-> lo, max |-> hi]
IntervalEmpty == Interval(Infinity, -Infinity)
IntervalLength(i) == i.max - i.min
IntervalExpand(i, amount) == Interval(i.min - amount, i.max + amount)

BBoxBounding(lo, hi) ==
    [x |-> Interval(lo[1], hi[1]), y |-> Interval(lo[2], hi[2]), z |-> Interval(lo[3], hi[3])]

BBoxUnion(a, b) ==
    [x |-> Interval(Min2(a.x.min, b.x.min), Max2(a.x.max, b.x.max)),
     y |-> Interval(Min2(a.y.min, b.y.min), Max2(a.y.max, b.y.max)),
     z |-> Interval(Min2(a.z.min, b.z.min), Max2(a.z.max, b.z.max))]

BBoxAxis(b, axis) == IF axis = 0 THEN b.x ELSE IF axis = 1 THEN b.y ELSE b.z

LongestAxis(b) ==
    LET xl == IntervalLength(b.x)
        yl == IntervalLength(b.y)
        zl == IntervalLength(b.z)
    IN IF xl > yl /\ xl > zl THEN 0 ELSE IF yl > zl THEN 1 ELSE 2

\* pad_to_min calls expand on each short axis and drops the interval that
\* expand returns: the box is left as it was
PadToMin(b, delta) == b

\* the 0.0001 that BBox::new passes to pad_to_min, as one model unit
PadDelta == 1

BBoxNew(x, y, z) == PadToMin([x |-> x, y |-> y, z |-> z], PadDelta)

\* one axis of BBox::hit: the pair <<t_min, t_max>> after the slab
Slab(i, o, d, t_min, t_max) ==
    LET a == FMulInv(FSub(i.min, o), d)
        b == FMulInv(FSub(i.max, o), d)
        t0 == IF d < 0 THEN b ELSE a
        t1 == IF d < 0 THEN a ELSE b
    IN <<FMax(t0, t_min), FMin(t1, t_max)>>

BBoxHit(b, ray, t_min, t_max) ==
    LET sx == Slab(b.x, ray.origin[1], ray.direction[1], t_min, t_max)
        sy == Slab(b.y, ray.origin[2], ray.direction[2], sx[1], sx[2])
        sz == Slab(b.z, ray.origin[3], ray.direction[3], sy[1], sy[2])
    IN sz[2] > sz[1]

(***************************************************************************)
(* Quad (geometry/primitives/quad.rs), the primitive of the model's scenes *)
(***************************************************************************)
NoHit == [hit |-> FALSE]

QuadNew(q, u, v) ==
    LET normal == Normalize(Cross(u, v))
    IN [q |-> q, u |-> u, v |-> v,
        bbox |-> BBoxUnion(BBoxBounding(q, VAdd(VAdd(q, u), v)),
                           BBoxBounding(VAdd(q, u), VAdd(q, v))),
        normal |-> normal,
        d |-> Dot(normal, q)]

\* Quad::hit; denom is -1, 0 or 1 for the model's rays, so the division by
\* denom is a multiplication
QuadHit(quad, ray, t_min, t_max) ==
    LET denom == Dot(quad.normal, ray.direction)
        t == (quad.d - Dot(quad.normal, ray.origin)) * denom
        p == PointAt(ray, t)
        w == VSub(p, quad.q)
        u_dot_u == Dot(quad.u, quad.u)
        u_dot_v == Dot(quad.u, quad.v)
        v_dot_v == Dot(quad.v, quad.v)
        w_dot_u == Dot(w, quad.u)
        w_dot_v == Dot(w, quad.v)
        denom_quad == u_dot_u * v_dot_v - u_dot_v * u_dot_v
        s_num == v_dot_v * w_dot_u - u_dot_v * w_dot_v
        t_num == u_dot_u * w_dot_v - u_dot_v * w_dot_u
    IN IF denom = 0 THEN NoHit
       ELSE IF t < t_min \/ t > t_max THEN NoHit
       ELSE IF s_num < 0 \/ s_num > denom_quad \/ t_num < 0 \/ t_num > denom_quad
            THEN NoHit
       ELSE [hit |-> TRUE, t |-> t, point |-> p, normal |-> quad.normal]

\* World::new and World::bounding_box: the background and its box of +-f32::MAX
WorldNew ==
    [world |-> TRUE,
     bbox |-> BBoxBounding(<<-F32Max, -F32Max, -F32Max>>, <<F32Max, F32Max, F32Max>>)]
IsWorld(obj) == "world" \in DOMAIN obj
\* a background that answers whatever has been hit before it
WorldHitAlways(ray, t_min, t_max) ==
    [hit |-> TRUE, t |-> F32Max, point |-> PointAt(ray, 1), normal |-> <<0, 0, 0>>]
\* World::hit (and skybox_hit): a hit at f32::MAX unless something nearer was hit
WorldHit(ray, t_min, t_max) ==
    IF t_max < F32Max THEN NoHit
    ELSE [hit |-> TRUE, t |-> F32Max, point |-> PointAt(ray, 1), normal |-> <<0, 0, 0>>]

\* Renderable::hit and Renderable::bounding_box of a renderable wrapping a quad
\* or the background
RenderableHit(obj, ray, t_min, t_max) ==
    IF IsWorld(obj) THEN WorldHit(ray, t_min, t_max) ELSE QuadHit(obj, ray, t_min, t_max)
RenderableBBox(obj) == obj.bbox

(***************************************************************************)
(* BVH (core/bvh.rs)                                                       *)
(***************************************************************************)
\* box_compare: Less when a's box starts before b's on the axis
BoxLess(objs, a, b, axis) ==
    BBoxAxis(RenderableBBox(objs[a]), axis).min < BBoxAxis(RenderableBBox(objs[b]), axis).min

\* the stable sort_by of the indices: insertion after the last element that
\* is not greater
RECURSIVE InsertSorted(_, _, _, _)
InsertSorted(objs, sorted, idx, axis) ==
    IF sorted = <<>> THEN <<idx>>
    ELSE IF BoxLess(objs, idx, sorted[Len(sorted)], axis)
         THEN InsertSorted(objs, SubSeq(sorted, 1, Len(sorted) - 1), idx, axis)
              \o <<sorted[Len(sorted)]>>
         ELSE Append(sorted, idx)

RECURSIVE SortIndices(_, _, _)
SortIndices(objs, indices, axis) ==
    IF indices = <<>> THEN <<>>
    ELSE InsertSorted(objs,
                      SortIndices(objs, SubSeq(indices, 1, Len(indices) - 1), axis),
                      indices[Len(indices)], axis)

RECURSIVE UnionOf(_, _)
UnionOf(objs, indices) ==
    IF Len(indices) = 1 THEN RenderableBBox(objs[indices[1]])
    ELSE BBoxUnion(UnionOf(objs, SubSeq(indices, 1, Len(indices) - 1)),
                   RenderableBBox(objs[indices[Len(indices)]]))

\* a split that gives the left half the odd index
SplitMidRoundedUp(indices) == (Len(indices) + 1) \div 2
SplitMid(indices) == Len(indices) \div 2

\* the states that the generator handed to the builder may be in
RngStates == {0, 1, 2}
\* a split on the axis that the generator draws
SplitAxisDrawn(rng, bbox) == rng % 3
\* BvhNode::new: axis = bbox.longest_axis(); the generator is not asked
SplitAxis(rng, bbox) == LongestAxis(bbox)
\* a Branch that takes the box of its left child
BranchBoxOfLeft(left, right) == left.bounding_box
\* BvhNode::new: bounding_box = left.bounding_box().union(right.bounding_box())
BranchBox(left, right) == BBoxUnion(left.bounding_box, right.bounding_box)

RECURSIVE BvhNodeNew(_, _, _)
BvhNodeNew(rng, objs, indices) ==
    IF Len(indices) = 1
    THEN [kind |-> "Leaf", bounding_box |-> RenderableBBox(objs[indices[1]]),
          index |-> indices[1]]
    ELSE LET bbox == UnionOf(objs, indices)
             axis == SplitAxis(rng, bbox)
             sorted == SortIndices(objs, indices, axis)
             mid == SplitMid(sorted)
             left == BvhNodeNew(rng, objs, SubSeq(sorted, 1, mid))
             right == BvhNodeNew(rng, objs, SubSeq(sorted, mid + 1, Len(sorted)))
         IN [kind |-> "Branch", bounding_box |-> BranchBox(left, right),
             left |-> left, right |-> right]

BvhNew(rng, objs) ==
    [built |-> TRUE, root |-> BvhNodeNew(rng, objs, [i \in 1..Len(objs) |-> i]),
     objects |-> objs]

RECURSIVE BvhNodeHit(_, _, _, _, _)
BvhNodeHit(node, objs, ray, t_min, t_max) ==
    IF node.kind = "Leaf"
    THEN LET h == RenderableHit(objs[node.index], ray, t_min, t_max)
         IN IF h.hit THEN h @@ [index |-> node.index] ELSE NoHit
    ELSE IF ~BBoxHit(node.bounding_box, ray, t_min, t_max) THEN NoHit
    ELSE LET left_hit == BvhNodeHit(node.left, objs, ray, t_min, t_max)
             closest == IF left_hit.hit THEN left_hit.t ELSE t_max
             right_hit == BvhNodeHit(node.right, objs, ray, t_min, closest)
         IN IF right_hit.hit THEN right_hit ELSE left_hit

BvhHit(b, ray, t_min, t_max) == BvhNodeHit(b.root, b.objects, ray, t_min, t_max)

(***************************************************************************)
(* Scene (core/scene.rs)                                                   *)
(***************************************************************************)
NoBvh == [built |-> FALSE]

\* the loop of scene_hit over the list, from position k, with the closest
\* hit so far
RECURSIVE ScanFrom(_, _, _, _, _, _)
ScanFrom(objs, k, ray, t_min, closest_so_far, hit_record) ==
    IF k > Len(objs) THEN hit_record
    ELSE LET h == RenderableHit(objs[k], ray, t_min, closest_so_far)
         IN IF h.hit
            THEN ScanFrom(objs, k + 1, ray, t_min, h.t, h @@ [index |-> k])
            ELSE ScanFrom(objs, k + 1, ray, t_min, closest_so_far, hit_record)

\* the list branch of scene_hit: the list's box is tested first
LinearScan(objs, bbox, ray, t_min, t_max) ==
    IF ~BBoxHit(bbox, ray, t_min, t_max) THEN NoHit
    ELSE ScanFrom(objs, 1, ray, t_min, t_max, NoHit)

SceneHit(objs, bbox, b, ray, t_min, t_max) ==
    IF b.built THEN BvhHit(b, ray, t_min, t_max)
    ELSE LinearScan(objs, bbox, ray, t_min, t_max)

\* Bvh::into_renderables: the renderables the tree owns, as a list
IntoRenderables(b) == b.objects

RECURSIVE ListBBox(_, _)
\* RenderableList::add on each element of objs in turn, from the box acc
ListBBox(acc, objs) ==
    IF objs = <<>> THEN acc
    ELSE ListBBox(BBoxUnion(acc, RenderableBBox(Head(objs))), Tail(objs))

RenderableListNewBBox == BBoxNew(IntervalEmpty, IntervalEmpty, IntervalEmpty)

(***************************************************************************)
(* The scenes and probe rays of the model                                  *)
(***************************************************************************)
MaxObjects == 3

\* axis-parallel quads: two coplanar ones side by side at z = 3, one behind
\* them at z = 5, and a wall in the plane x = 4
Catalog ==
    { QuadNew(<<0, 0, 3>>, <<2, 0, 0>>, <<0, 2, 0>>),
      QuadNew(<<2, 0, 3>>, <<2, 0, 0>>, <<0, 2, 0>>),
      QuadNew(<<0, 0, 5>>, <<2, 0, 0>>, <<0, 2, 0>>),
      QuadNew(<<4, 0, 0>>, <<0, 2, 0>>, <<0, 0, 6>>) }

ProbeRays ==
    { [origin |-> o, direction |-> d] :
        o \in {<<1, 1, 0>>, <<3, 1, 0>>, <<1, 1, 4>>},
        d \in {<<0, 0, 1>>, <<1, 0, 1>>, <<0, 0, -1>>} }

ProbeTMin == {0, 1}
ProbeTMax == {4, F32Max}

NoProbe == [asked |-> FALSE]

(***************************************************************************)
(* Scene operations                                                        *)
(***************************************************************************)
TheScene == [objects |-> objects, list_bbox |-> list_bbox, bvh |-> bvh]
EmptyScene == [objects |-> <<>>, list_bbox |-> RenderableListNewBBox, bvh |-> NoBvh]
SceneSize(sc) == Len(sc.objects) + (IF sc.bvh.built THEN Len(sc.bvh.objects) ELSE 0)

\* an add that leaves a built tree in place
SceneAddObjectKeepingBvh(sc, obj) ==
    [objects |-> Append(sc.objects, obj),
     list_bbox |-> BBoxUnion(sc.list_bbox, RenderableBBox(obj)),
     bvh |-> sc.bvh]

\* Scene::add_object
SceneAddObject(sc, obj) ==
    IF sc.bvh.built
    THEN LET renderables == IntoRenderables(sc.bvh)
         IN [objects |-> Append(renderables, obj),
             list_bbox |-> ListBBox(RenderableListNewBBox, Append(renderables, obj)),
             bvh |-> NoBvh]
    ELSE [objects |-> Append(sc.objects, obj),
          list_bbox |-> BBoxUnion(sc.list_bbox, RenderableBBox(obj)),
          bvh |-> NoBvh]

\* Scene::build_bvh
SceneBuildBvh(rng, sc) ==
    IF sc.objects = <<>>
    THEN [sc EXCEPT !.bvh = NoBvh]
    ELSE LET bvh_root == BvhNew(rng, sc.objects)
         IN [objects |-> <<>>, list_bbox |-> bvh_root.root.bounding_box, bvh |-> bvh_root]

SetScene(sc) ==
    /\ objects' = sc.objects
    /\ list_bbox' = sc.list_bbox
    /\ bvh' = sc.bvh

AddObject(obj) ==
    /\ SceneSize(TheScene) < MaxObjects
    /\ SetScene(SceneAddObject(TheScene, obj))
    /\ probe' = NoProbe
    /\ call' = [fn |-> "add_object", had_bvh |-> bvh.built]
    /\ UNCHANGED <<render_vars, mix_vars, path>>

BuildBvh(rng) ==
    /\ SetScene(SceneBuildBvh(rng, TheScene))
    /\ probe' = NoProbe
    /\ call' = [fn |-> "build_bvh"]
    /\ UNCHANGED <<render_vars, mix_vars, path>>

\* Scene::hit (scene_hit) for one ray and interval
Query(ray, t_min, t_max) ==
    /\ probe' = [asked |-> TRUE, ray |-> ray, t_min |-> t_min, t_max |-> t_max,
                 hit |-> SceneHit(objects, list_bbox, bvh, ray, t_min, t_max)]
    /\ UNCHANGED <<objects, list_bbox, bvh, render_vars, mix_vars, rest_vars>>

SceneNext ==
    \/ \E obj \in Catalog : AddObject(obj)
    \/ \E rng \in RngStates : BuildBvh(rng)
    \/ \E ray \in ProbeRays, t_min \in ProbeTMin, t_max \in ProbeTMax :
          Query(ray, t_min, t_max)

(***************************************************************************)
(* Rendering (lib.rs, core/acceleration.rs)                                *)
(***************************************************************************)
NoImage == [built |-> FALSE]

ChunkBounds(x_start, x_end, y_start, y_end) ==
    [x_start |-> x_start, x_end |-> x_end, y_start |-> y_start, y_end |-> y_end]

ChunkWidth(b) == b.x_end - b.x_start
ChunkHeight(b) == b.y_end - b.y_start

\* (n as f32).sqrt() as u32
ISqrt(n) == CHOOSE k \in 0..n : k * k <= n /\ (k + 1) * (k + 1) > n
SqrtN(samples) == ISqrt(Max2(samples, 1))

\* a chunk that divides v by the height of its own band
ChunkViewHeightOfBand(r, bounds) == bounds.y_end - bounds.y_start
\* the height raytrace_chunk divides v by: image_height(render)
ChunkViewHeight(r, bounds) == r.height

\* the three bytes raytrace_chunk pushes for pixel (x, y): each is the mean of
\* ns samples of the viewport cell [x, x+1) / width by [y, y+1) / height
Pixel(r, bounds, x, y) ==
    LET sqrt_n == SqrtN(r.samples)
        ns == sqrt_n * sqrt_n
        cell == [x |-> x, of_width |-> r.width, y |-> y,
                 of_height |-> ChunkViewHeight(r, bounds), ns |-> ns]
    IN <<[cell |-> cell, ch |-> 0], [cell |-> cell, ch |-> 1], [cell |-> cell, ch |-> 2]>>

RECURSIVE RowData(_, _, _, _)
\* the inner loop of raytrace_chunk: pixels x .. x_end-1 of row y
RowData(r, bounds, x, y) ==
    IF x >= bounds.x_end THEN <<>>
    ELSE Pixel(r, bounds, x, y) \o RowData(r, bounds, x + 1, y)

RECURSIVE RowsData(_, _, _)
\* the outer loop of raytrace_chunk: rows y .. y_end-1
RowsData(r, bounds, y) ==
    IF y >= bounds.y_end THEN <<>>
    ELSE RowData(r, bounds, bounds.x_start, y) \o RowsData(r, bounds, y + 1)

RaytraceChunk(r, bounds) == [bounds |-> bounds, data |-> RowsData(r, bounds, bounds.y_start)]

\* a destination row taken from the row's index in its chunk
DestRowOfIndex(height, y, row_idx) == height - 1 - row_idx
\* a destination row that is the image row itself: no flip, or two
DestRowUnflipped(height, y, row_idx) == y
\* assemble_chunks: the destination row of image row y
DestRow(height, y, row_idx) == height - 1 - y

Panicked == [ok |-> FALSE]

RECURSIVE CopyRow(_, _, _, _)
\* copy_from_slice of src into the pixels px at dest_offset (0-based), byte k
\* of src on
CopyRow(px, dest_offset, src, k) ==
    IF k > Len(src) THEN px
    ELSE CopyRow([px EXCEPT ![dest_offset + k] =
                     [val |-> src[k], writes |-> @.writes + 1]],
                 dest_offset, src, k + 1)

RECURSIVE AssembleRows(_, _, _, _, _)
\* the loop over the rows of one chunk, from image row y on
AssembleRows(img, chunk, frame_row_stride, height, y) ==
    IF ~img.ok \/ y >= chunk.bounds.y_end THEN img
    ELSE LET chunk_row_stride == ChunkWidth(chunk.bounds) * 3
             row_idx == y - chunk.bounds.y_start
             dest_row == DestRow(height, y, row_idx)
             dest_offset == dest_row * frame_row_stride + chunk.bounds.x_start * 3
             src_offset == row_idx * chunk_row_stride
             src_end == src_offset + chunk_row_stride
         IN IF dest_offset < 0 \/ dest_offset + chunk_row_stride > Len(img.px)
               \/ src_end > Len(chunk.data)
            THEN Panicked
            ELSE AssembleRows(
                     [ok |-> TRUE,
                      px |-> CopyRow(img.px, dest_offset,
                                     SubSeq(chunk.data, src_offset + 1, src_end), 1)],
                     chunk, frame_row_stride, height, y + 1)

RECURSIVE AssembleFrom(_, _, _, _, _)
\* the loop over the chunks, from chunk k on
AssembleFrom(img, cs, k, frame_row_stride, height) ==
    IF ~img.ok \/ k > Len(cs) THEN img
    ELSE AssembleFrom(
             AssembleRows(img, cs[k], frame_row_stride, height, cs[k].bounds.y_start),
             cs, k + 1, frame_row_stride, height)

\* assemble_chunks: the image, or Panicked when a slice index is out of range
AssembleChunks(cs, width, height) ==
    LET frame_row_stride == width * 3
        zero == [i \in 1..(frame_row_stride * height) |-> [val |-> 0, writes |-> 0]]
    IN AssembleFrom([ok |-> TRUE, px |-> zero], cs, 1, frame_row_stride, height)

\* raytrace: the full frame as one chunk
FullFrame(r) == ChunkBounds(0, r.width, 0, r.height)
Raytrace(r) == AssembleChunks(<<RaytraceChunk(r, FullFrame(r))>>, r.width, r.height)

\* raytrace_concurrent: the band of chunk i (0-based)
RayonBand(r, n, i) ==
    LET chunk_height == (r.height + n - 1) \div n
    IN ChunkBounds(0, r.width, i * chunk_height, Min2((i + 1) * chunk_height, r.height))

\* Threaded::render: the band of thread i (0-based); the loop breaks at the
\* first i whose y_start is not below the height
StripHeight(r, n) == (r.height + n - 1) \div n
ThreadedBreak(r, n, i) == i * StripHeight(r, n) >= r.height
ThreadedBand(r, n, i) ==
    LET y_start == i * StripHeight(r, n)
    IN ChunkBounds(0, r.width, y_start, Min2(y_start + StripHeight(r, n), r.height))

\* rand::rng(): the generator local to the calling thread
ThreadRng(thread) == thread

\* one generator made by the executor and handed to every worker
SharedRng(thread) == ThreadRng(0)
\* rand::rng() in the closure a worker runs: the passed generator
WorkerRng(thread) == ThreadRng(thread)
\* rand::rng() inside RenderVolume::hit
VolumeRng(thread) == ThreadRng(thread)

\* a query that builds the BVH when it is asked
SceneRebuiltByHit(sc) == SceneBuildBvh(ThreadRng(0), sc)
\* Scene::hit takes &Scene: a query leaves the scene as it is
SceneAfterHit(sc) == sc

\* a join that returns at once
FinishedOrNot(w) == TRUE
\* a thread's closure has returned or panicked
Finished(w) == w.state \in {"done", "panicked"}

\* a join whose error is dropped
JoinOutcomeIgnoringPanic(w) == "push"
\* what the executor does with a joined worker: handle.join().expect(..)
\* panics on a panicked worker, and pushes the chunk of any other
JoinOutcome(w) == IF w.state = "panicked" THEN "panic" ELSE "push"

\* ChunkBounds::height on a band whose y_end is below its y_start: the u32
\* subtraction overflows
HeightOverflows(b) == b.y_end < b.y_start
\* what the overflow does: a panic (overflow checks on), or a wrapped height,
\* after which the row loops of the chunk are empty
OverflowOutcomes == {"panicked", "done"}

(***************************************************************************)
(* Mixture PDF (math/pdf.rs); a weight is an exact fraction <<num, den>>   *)
(***************************************************************************)
RECURSIVE Gcd(_, _)
Gcd(a, b) == IF b = 0 THEN a ELSE Gcd(b, a % b)
Abs(a) == IF a < 0 THEN -a ELSE a

\* the fraction n/d in lowest terms, d > 0
Frac(n, d) ==
    LET g == Gcd(Abs(n), Abs(d))
        sg == IF d < 0 THEN -1 ELSE 1
    IN <<(sg * n) \div g, (sg * d) \div g>>
FracAdd(a, b) == Frac(a[1] * b[2] + b[1] * a[2], a[2] * b[2])
FracMul(a, b) == Frac(a[1] * b[1], a[2] * b[2])
FracDiv(a, b) == Frac(a[1] * b[2], a[2] * b[1])
FracLess(a, b) == a[1] * b[2] < b[1] * a[2]
Zero == <<0, 1>>
One == <<1, 1>>

RECURSIVE FracSum(_)
FracSum(ws) == IF ws = <<>> THEN Zero ELSE FracAdd(Head(ws), FracSum(Tail(ws)))

\* a balance that leaves the weights as they were pushed
BalanceSkipped(ws) == ws
\* MixturePDF::balance_weights
BalanceWeights(ws) ==
    LET total_weight == FracSum(ws)
    IN IF FracLess(Zero, total_weight)
       THEN [i \in DOMAIN ws |-> FracDiv(ws[i], total_weight)]
       ELSE ws

\* MixturePDF::add: the weights after pushing one more component
MixtureAdd(ws, weight) == BalanceWeights(Append(ws, weight))

RECURSIVE WeightedSum(_, _)
WeightedSum(ws, ps) ==
    IF ws = <<>> THEN Zero
    ELSE FracAdd(FracMul(Head(ws), Head(ps)), WeightedSum(Tail(ws), Tail(ps)))

\* MixturePDF::value, given the density of each component at the direction
MixtureValue(ws, densities) == WeightedSum(ws, densities)

\* a fallback to the first component
MixtureFallbackFirst(ws) == IF ws = <<>> THEN 0 ELSE 1
\* self.mixes.last().unwrap(): the position of the last component; 0 stands for
\* the panic of unwrap on a mixture without components
MixtureFallback(ws) == Len(ws)
RECURSIVE GenerateFrom(_, _, _, _)
\* the loop of generate from component i on: the first component whose
\* cumulative weight is above r
GenerateFrom(ws, r, i, cumulative_weight) ==
    IF i > Len(ws) THEN MixtureFallback(ws)
    ELSE LET cumulative == FracAdd(cumulative_weight, ws[i])
         IN IF FracLess(r, cumulative) THEN i ELSE GenerateFrom(ws, r, i + 1, cumulative)
\* MixturePDF::generate for the draw r: the components whose generate it calls
MixtureGenerate(ws, r) ==
    LET component == GenerateFrom(ws, r, 1, Zero)
    IN [drawn |-> <<r>>, delegated |-> IF component = 0 THEN <<>> ELSE <<component>>,
        abort |-> component = 0]

(***************************************************************************)
(* The renders of the model                                                *)
(***************************************************************************)
MaxHeight == 4
MaxThreads == 3
Widths == {1, 2}
SampleCounts == {1, 5}
Documents ==
    { <<>>,
      << QuadNew(<<0, 0, 3>>, <<2, 0, 0>>, <<0, 2, 0>>),
         QuadNew(<<0, 0, 5>>, <<2, 0, 0>>, <<0, 2, 0>>) >> }

MainThread == 0

RECURSIVE SceneFromList(_, _)
\* into_render: add_object for each object of the document
SceneFromList(sc, doc) ==
    IF doc = <<>> THEN sc ELSE SceneFromList(SceneAddObject(sc, Head(doc)), Tail(doc))

\* no camera ray is being traced, and nothing has been called
NoPath ==
    [state |-> "none", limit |-> 0, depth |-> 0, stack |-> <<>>, current |-> "none",
     normal |-> "none", queries |-> 0, missed |-> FALSE, ended_by |-> "none",
     divisors |-> {}]
NoCall == [fn |-> "none"]

\* a Scene::new() with nothing rendering and an empty mixture
InitScene ==
    /\ objects = <<>>
    /\ list_bbox = RenderableListNewBBox
    /\ bvh = NoBvh
    /\ probe = NoProbe
    /\ render = [width |-> 0, height |-> 0, samples |-> 0]
    /\ executor = "none"
    /\ num_threads = 0
    /\ pc = "idle"
    /\ bands = <<>>
    /\ worker = <<>>
    /\ chunks = <<>>
    /\ image = NoImage
    /\ draws = {}
    /\ mixes = <<>>
    /\ supplied = <<>>
    /\ total_seen = Zero
    /\ path = NoPath
    /\ call = NoCall

SpecScene == InitScene /\ [][SceneNext]_vars

\* scenes that hold a background: the quads at z = 3 and z = 5 and the World
WorldCatalog ==
    { WorldNew,
      QuadNew(<<0, 0, 3>>, <<2, 0, 0>>, <<0, 2, 0>>),
      QuadNew(<<2, 0, 3>>, <<2, 0, 0>>, <<0, 2, 0>>),
      QuadNew(<<0, 0, 5>>, <<2, 0, 0>>, <<0, 2, 0>>) }
WorldNext ==
    \/ \E obj \in WorldCatalog : AddObject(obj)
    \/ \E rng \in RngStates : BuildBvh(rng)
    \/ \E ray \in ProbeRays, t_min \in ProbeTMin, t_max \in ProbeTMax :
          Query(ray, t_min, t_max)
SpecWorld == InitScene /\ [][WorldNext]_vars

\* the program before it loads its scene: the render settings, the executor
\* chosen on the command line and the number of cpus
InitRender ==
    /\ objects = <<>>
    /\ list_bbox = RenderableListNewBBox
    /\ bvh = NoBvh
    /\ probe = NoProbe
    /\ render \in [width : Widths, height : 1..MaxHeight, samples : SampleCounts]
    /\ executor \in {"single", "rayon", "threaded"}
    /\ num_threads \in 1..MaxThreads
    /\ pc = "load"
    /\ bands = <<>>
    /\ worker = <<>>
    /\ chunks = <<>>
    /\ image = NoImage
    /\ draws = {}
    /\ mixes = <<>>
    /\ supplied = <<>>
    /\ total_seen = Zero
    /\ path = NoPath
    /\ call = NoCall

\* scene_file::into_render: the objects are added, then the BVH is built
LoadScene(doc) ==
    /\ pc = "load"
    /\ SetScene(SceneBuildBvh(ThreadRng(MainThread), SceneFromList(EmptyScene, doc)))
    /\ pc' = "start"
    /\ UNCHANGED <<probe, render, executor, num_threads, bands, worker, chunks, image,
                   draws, mix_vars, rest_vars>>

DrawsOf(thread, band) ==
    { [thread |-> thread, source |-> WorkerRng(thread), band |-> band],
      [thread |-> thread, source |-> VolumeRng(thread), band |-> band] }

\* a thread entering raytrace_chunk for the band b
StartedWorker(b, thread, outcome) ==
    IF HeightOverflows(b)
    THEN [state |-> outcome, thread |-> thread, y |-> b.y_start, data |-> <<>>]
    ELSE [state |-> IF b.y_start >= b.y_end THEN "done" ELSE "running",
          thread |-> thread, y |-> b.y_start, data |-> <<>>]

\* raytrace: one chunk for the full frame on the calling thread, then
\* assemble_chunks
RaytraceSingle ==
    /\ pc = "start" /\ executor = "single"
    /\ LET chunk == RaytraceChunk(render, FullFrame(render))
           img == AssembleChunks(<<chunk>>, render.width, render.height)
       IN /\ bands' = <<FullFrame(render)>>
          /\ worker' = <<[state |-> "done", thread |-> MainThread,
                          y |-> render.height, data |-> chunk.data]>>
          /\ chunks' = <<chunk>>
          /\ image' = IF img.ok THEN [built |-> TRUE, px |-> img.px] ELSE NoImage
          /\ pc' = IF img.ok THEN "done" ELSE "fatal"
          /\ draws' = draws \cup DrawsOf(MainThread, 1)
    /\ SetScene(SceneAfterHit(TheScene))
    /\ UNCHANGED <<probe, render, executor, num_threads, mix_vars, rest_vars>>

\* raytrace_concurrent: the chunk bounds, one per cpu
RayonSplit ==
    /\ pc = "start" /\ executor = "rayon"
    /\ bands' = [i \in 1..num_threads |-> RayonBand(render, num_threads, i - 1)]
    /\ worker' = [i \in 1..num_threads |->
                    [state |-> "idle", thread |-> MainThread, y |-> 0, data |-> <<>>]]
    /\ pc' = "par_iter"
    /\ UNCHANGED <<scene_vars, render, executor, num_threads, chunks, image, draws,
                   mix_vars, rest_vars>>

BusyThreads == { worker[i].thread : i \in { k \in DOMAIN worker : worker[k].state = "running" } }
\* the pool's threads are interchangeable: the lowest idle one takes the job
IdleThread == CHOOSE t \in 1..num_threads : t \notin BusyThreads /\
                  \A u \in 1..num_threads : u \notin BusyThreads => t <= u

\* a pool thread takes chunk i of the parallel iterator
RayonStart(i, outcome) ==
    /\ pc = "par_iter" /\ executor = "rayon"
    /\ worker[i].state = "idle"
    /\ worker' = [worker EXCEPT ![i] = StartedWorker(bands[i], IdleThread, outcome)]
    /\ UNCHANGED <<scene_vars, render, executor, num_threads, pc, bands, chunks, image,
                   draws, mix_vars, rest_vars>>

\* one row of the loop of raytrace_chunk
RenderRow(i) ==
    /\ worker[i].state = "running"
    /\ LET w == worker[i]
           b == bands[i]
       IN /\ worker' = [worker EXCEPT ![i] =
                 [state |-> IF w.y + 1 >= b.y_end THEN "done" ELSE "running",
                  thread |-> w.thread,
                  y |-> w.y + 1,
                  data |-> w.data \o RowData(render, b, b.x_start, w.y)]]
          /\ draws' = draws \cup DrawsOf(w.thread, i)
    /\ SetScene(SceneAfterHit(TheScene))
    /\ UNCHANGED <<probe, render, executor, num_threads, pc, bands, chunks, image,
                   mix_vars, rest_vars>>

\* a worker panics inside raytrace_chunk
WorkerPanic(i) ==
    /\ worker[i].state = "running"
    /\ worker' = [worker EXCEPT ![i].state = "panicked"]
    /\ UNCHANGED <<scene_vars, render, executor, num_threads, pc, bands, chunks, image,
                   draws, mix_vars, rest_vars>>

ChunkOf(i) == [bounds |-> bands[i], data |-> worker[i].data]

\* collect() of the parallel iterator: returns when every job has ended, and
\* resumes the panic of a job that panicked
RayonCollect ==
    /\ pc = "par_iter"
    /\ \A i \in DOMAIN worker : Finished(worker[i])
    /\ IF \E i \in DOMAIN worker : JoinOutcome(worker[i]) = "panic"
       THEN /\ pc' = "fatal"
            /\ UNCHANGED chunks
       ELSE /\ pc' = "assemble"
            /\ chunks' = [i \in DOMAIN worker |-> ChunkOf(i)]
    /\ UNCHANGED <<scene_vars, render, executor, num_threads, bands, worker, image,
                   draws, mix_vars, rest_vars>>

\* Threaded::render: one turn of the spawn loop
ThreadedSpawn ==
    /\ pc \in {"start", "spawn"} /\ executor = "threaded"
    /\ LET i == Len(bands)
       IN IF i < num_threads /\ ~ThreadedBreak(render, num_threads, i)
          THEN LET b == ThreadedBand(render, num_threads, i)
               IN /\ bands' = Append(bands, b)
                  /\ \E outcome \in OverflowOutcomes :
                        worker' = Append(worker, StartedWorker(b, i + 1, outcome))
                  /\ pc' = "spawn"
          ELSE /\ pc' = "join"
               /\ UNCHANGED <<bands, worker>>
    /\ UNCHANGED <<scene_vars, render, executor, num_threads, chunks, image, draws,
                   mix_vars, rest_vars>>

\* Threaded::render: one turn of the join loop; after the last handle the
\* scope ends
ThreadedJoin ==
    /\ pc = "join"
    /\ LET j == Len(chunks) + 1
       IN IF j > Len(bands)
          THEN /\ pc' = "assemble"
               /\ UNCHANGED chunks
          ELSE /\ Finished(worker[j])
               /\ IF JoinOutcome(worker[j]) = "panic"
                  THEN /\ pc' = "unwind"
                       /\ UNCHANGED chunks
                  ELSE /\ chunks' = Append(chunks, ChunkOf(j))
                       /\ pc' = "join"
    /\ UNCHANGED <<scene_vars, render, executor, num_threads, bands, worker, image,
                   draws, mix_vars, rest_vars>>

\* thread::scope after a panic in its closure: it waits for the threads that
\* still run and resumes the panic
ScopeUnwind ==
    /\ pc = "unwind"
    /\ \A i \in DOMAIN worker : Finished(worker[i])
    /\ pc' = "fatal"
    /\ UNCHANGED <<scene_vars, render, executor, num_threads, bands, worker, chunks,
                   image, draws, mix_vars, rest_vars>>

\* assemble_chunks on the collected chunks; the buffer is returned
Assemble ==
    /\ pc = "assemble"
    /\ LET img == AssembleChunks(chunks, render.width, render.height)
       IN /\ image' = IF img.ok THEN [built |-> TRUE, px |-> img.px] ELSE NoImage
          /\ pc' = IF img.ok THEN "done" ELSE "fatal"
    /\ UNCHANGED <<scene_vars, render, executor, num_threads, bands, worker, chunks,
                   draws, mix_vars, rest_vars>>

RenderNext ==
    \/ \E doc \in Documents : LoadScene(doc)
    \/ RaytraceSingle
    \/ RayonSplit
    \/ \E i \in DOMAIN worker, outcome \in OverflowOutcomes : RayonStart(i, outcome)
    \/ \E i \in DOMAIN worker : RenderRow(i)
    \/ \E i \in DOMAIN worker : WorkerPanic(i)
    \/ RayonCollect
    \/ ThreadedSpawn
    \/ ThreadedJoin
    \/ ScopeUnwind
    \/ Assemble

SpecRender == InitRender /\ [][RenderNext]_vars

(***************************************************************************)
(* The mixtures of the model                                               *)
(***************************************************************************)
MaxMixes == 3
SuppliedWeights == {<<0, 1>>, <<1, 4>>, <<1, 2>>, <<1, 1>>, <<-1, 1>>}

\* MixturePDF::add
Add(weight) ==
    /\ Len(mixes) < MaxMixes
    /\ mixes' = MixtureAdd(mixes, weight)
    /\ supplied' = Append(supplied, weight)
    /\ total_seen' = FracSum(Append(mixes, weight))
    /\ UNCHANGED <<scene_vars, render_vars, rest_vars>>

\* the values of rng.random::<f32>() that the model takes, all in [0, 1)
UniformDraws == {<<0, 1>>, <<1, 4>>, <<1, 2>>, <<2, 3>>, <<3, 4>>}

\* MixturePDF::generate
Generate(r) ==
    /\ call = NoCall
    /\ call' = [fn |-> "generate", weights |-> mixes, r |-> r,
                result |-> MixtureGenerate(mixes, r)]
    /\ UNCHANGED <<scene_vars, render_vars, mix_vars, path>>

MixNext ==
    \/ \E weight \in SuppliedWeights : Add(weight)
    \/ \E r \in UniformDraws : Generate(r)

\* a MixturePDF::new()
InitMix ==
    /\ objects = <<>>
    /\ list_bbox = RenderableListNewBBox
    /\ bvh = NoBvh
    /\ probe = NoProbe
    /\ render = [width |-> 0, height |-> 0, samples |-> 0]
    /\ executor = "none"
    /\ num_threads = 0
    /\ pc = "idle"
    /\ bands = <<>>
    /\ worker = <<>>
    /\ chunks = <<>>
    /\ image = NoImage
    /\ draws = {}
    /\ mixes = <<>>
    /\ supplied = <<>>
    /\ total_seen = Zero
    /\ path = NoPath
    /\ call = NoCall

SpecMix == InitMix /\ [][MixNext]_vars

(***************************************************************************)
(* The light path of one camera ray (lib.rs raytrace_chunk and the sample  *)
(* functions of the materials).  A density is kept in units of 1/(1000 pi) *)
(* and a cosine in thousandths, so that cosine / PI is the cosine itself.  *)
(***************************************************************************)
MaxDepth == 2

Materials == {"Lambertian", "Metallic", "Dielectric", "Diffuse", "DiffuseLight"}

\* the normal of a hit: of unit length, or NaN (Quad::new normalizes the cross
\* product of its edges, which is 0/0 when an edge has no length)
Normals == {"unit", "nan"}

\* the draws r2 of random_cosine_direction, in thousandths of [0, 1)
R2Draws == {0, 999}

\* comparisons of f32: false when an operand is NaN
FLess(a, b) == a # NaN /\ b # NaN /\ a < b
FGreater(a, b) == a # NaN /\ b # NaN /\ a > b

\* random_cosine_direction: z = sqrt(1 - r2), in thousandths
CosineZ(r2) == ISqrt((1000 - r2) * 1000)

\* hit.normal . unit(uvw.local(direction)): the z of the direction in the basis
\* built on the normal
ScatterCosine(normal, r2) == IF normal = "nan" THEN NaN ELSE CosineZ(r2)

\* CosinePDF::sample
CosinePdfSample(cosine) == IF FLess(cosine, 0) THEN 0 ELSE cosine

\* a sample that returns black whenever the density is not above zero
DivideIfPositive(divisors, pdf) == IF FGreater(pdf, 0) THEN divisors \cup {pdf} ELSE divisors
\* Lambertian::sample: (attenuation * bounce * pdf) / pdf
Divide(divisors, pdf) == divisors \cup {pdf}

\* a material that traces its bounce with the depth it was given
BounceDepthKept(depth) == depth
\* the depth the sample functions pass to the next sample: depth - 1
BounceDepth(depth) == depth - 1

\* DiffuseLight::sample returns its texture; the others trace a bounce
Scatters(material) == material # "DiffuseLight"

\* raytrace_chunk: one camera ray of a render with max_depth d
CameraRay(d) ==
    /\ path.state \in {"none", "ended"}
    /\ path' = [NoPath EXCEPT !.state = "query", !.limit = d, !.depth = d]
    /\ UNCHANGED <<scene_vars, render_vars, mix_vars, call>>

\* scene.hit on the camera ray or on a scattered ray: a miss, or the material
\* and the normal of the nearest hit
PathQuery(material, normal) ==
    /\ path.state = "query"
    /\ path' = IF material = "none"
               THEN [path EXCEPT !.queries = @ + 1,
                                 !.state = "return",
                                 !.missed = path.stack # <<>>,
                                 !.ended_by = "no-hit"]
               ELSE [path EXCEPT !.queries = @ + 1,
                                 !.state = "sample",
                                 !.current = material,
                                 !.normal = normal]
    /\ UNCHANGED <<scene_vars, render_vars, mix_vars, call>>

\* the sample function of the material that was hit, up to its scene.hit
PathSample(r2) ==
    /\ path.state = "sample"
    /\ path' = IF ~Scatters(path.current)
               THEN [path EXCEPT !.state = "return", !.ended_by = "non-scattering"]
               ELSE IF path.depth = 0
               THEN [path EXCEPT !.state = "return", !.ended_by = "depth"]
               ELSE [path EXCEPT
                        !.state = "query",
                        !.stack = Append(@, [material |-> path.current,
                                             depth |-> path.depth,
                                             cosine |-> ScatterCosine(path.normal, r2)]),
                        !.depth = BounceDepth(path.depth)]
    /\ UNCHANGED <<scene_vars, render_vars, mix_vars, call>>

\* a sample function returns to its caller; Lambertian::sample, when its
\* scattered ray hit something, divides by the density of its direction
PathReturn ==
    /\ path.state = "return"
    /\ path' = IF path.stack = <<>>
               THEN [path EXCEPT !.state = "ended"]
               ELSE LET frame == path.stack[Len(path.stack)]
                        popped == SubSeq(path.stack, 1, Len(path.stack) - 1)
                    IN IF frame.material = "Lambertian" /\ ~path.missed
                       THEN [path EXCEPT
                                !.stack = popped,
                                !.divisors = Divide(@, CosinePdfSample(frame.cosine))]
                       ELSE [path EXCEPT !.stack = popped, !.missed = FALSE]
    /\ UNCHANGED <<scene_vars, render_vars, mix_vars, call>>

PathNext ==
    \/ \E d \in 0..MaxDepth : CameraRay(d)
    \/ PathQuery("none", "none")
    \/ \E material \in Materials, normal \in Normals : PathQuery(material, normal)
    \/ \E r2 \in R2Draws : PathSample(r2)
    \/ PathReturn

\* nothing is being rendered; the first camera ray has yet to be made
InitPath ==
    /\ objects = <<>>
    /\ list_bbox = RenderableListNewBBox
    /\ bvh = NoBvh
    /\ probe = NoProbe
    /\ render = [width |-> 0, height |-> 0, samples |-> 0]
    /\ executor = "none"
    /\ num_threads = 0
    /\ pc = "idle"
    /\ bands = <<>>
    /\ worker = <<>>
    /\ chunks = <<>>
    /\ image = NoImage
    /\ draws = {}
    /\ mixes = <<>>
    /\ supplied = <<>>
    /\ total_seen = Zero
    /\ path = NoPath
    /\ call = NoCall

\* the thread that traces the ray keeps running until the ray is done
SpecPath == InitPath /\ [][PathNext]_vars /\ WF_vars(PathNext)

(***************************************************************************)
(* Calls of single functions of the program, on exact fractions.  A vector *)
(* of fractions is a triple of fractions.                                  *)
(***************************************************************************)
FracNeg(a) == <<-a[1], a[2]>>
FracSub(a, b) == FracAdd(a, FracNeg(b))
\* f32::sqrt, exact on the squares of fractions that the model's inputs give
FracSqrt(a) == <<ISqrt(a[1]), ISqrt(a[2])>>
\* f32::powi(5)
FracPow5(a) == FracMul(a, FracMul(FracMul(a, a), FracMul(a, a)))
FracOf(n) == <<n, 1>>

QVec(v) == <<FracOf(v[1]), FracOf(v[2]), FracOf(v[3])>>
QAdd(a, b) == <<FracAdd(a[1], b[1]), FracAdd(a[2], b[2]), FracAdd(a[3], b[3])>>
QSub(a, b) == <<FracSub(a[1], b[1]), FracSub(a[2], b[2]), FracSub(a[3], b[3])>>
QScale(a, k) == <<FracMul(a[1], k), FracMul(a[2], k), FracMul(a[3], k)>>
QNeg(a) == <<FracNeg(a[1]), FracNeg(a[2]), FracNeg(a[3])>>
QDot(a, b) ==
    FracAdd(FracMul(a[1], b[1]), FracAdd(FracMul(a[2], b[2]), FracMul(a[3], b[3])))
QLength(a) == FracSqrt(QDot(a, a))
\* vec::unit_vector
UnitVector(a) == QScale(a, FracDiv(One, QLength(a)))

\* vec::reflect: v - 2 (v . n) n
Reflect(v, n) == QSub(v, QScale(n, FracMul(FracOf(2), QDot(v, n))))

NoRefraction == <<>>
\* vec::refract: the refracted direction, or NoRefraction on total internal
\* reflection
Refract(v, n, ni_over_nt) ==
    LET uv == UnitVector(v)
        dt == QDot(uv, n)
        discriminant ==
            FracSub(One, FracMul(FracMul(ni_over_nt, ni_over_nt),
                                 FracSub(One, FracMul(dt, dt))))
    IN IF FracLess(Zero, discriminant)
       THEN QSub(QScale(QSub(uv, QScale(n, dt)), ni_over_nt),
                 QScale(n, FracSqrt(discriminant)))
       ELSE NoRefraction

\* dielectric_sample: reflect_prob = r0 + (1 - r0) (1 - cosine)^5
ReflectProb(r0, cosine) ==
    FracAdd(r0, FracMul(FracSub(One, r0), FracPow5(FracSub(One, cosine))))

\* dielectric_sample: the scatter direction for the incident direction, the
\* normal of the hit and the draw rnd of rng.random()
DielectricScatter(refractive_index, direction, normal, rnd) ==
    LET reflected == Reflect(UnitVector(direction), normal)
        inside == FracLess(Zero, QDot(direction, normal))
        outward_normal == IF inside THEN QNeg(normal) ELSE normal
        ni_over_nt == IF inside THEN refractive_index ELSE FracDiv(One, refractive_index)
        cosine == IF inside
                  THEN FracDiv(FracMul(refractive_index, QDot(direction, normal)),
                               QLength(direction))
                  ELSE FracDiv(FracNeg(QDot(direction, normal)), QLength(direction))
        refracted == Refract(UnitVector(direction), outward_normal, ni_over_nt)
        r0sqrt == FracDiv(FracSub(One, refractive_index), FracAdd(One, refractive_index))
        r0 == FracMul(r0sqrt, r0sqrt)
    IN IF refracted = NoRefraction THEN reflected
       ELSE IF FracLess(rnd, ReflectProb(r0, cosine)) THEN reflected
       ELSE refracted

\* the incident directions, hit normals and draws of the model
Directions ==
    { <<0, 0, -5>>, <<3, 0, -4>>, <<4, 0, -3>>, <<0, 3, -4>>, <<5, 0, 0>>,
      <<0, 0, 5>>, <<3, 0, 4>>, <<0, -4, 3>>, <<0, 0, -1>>, <<6, 0, -8>> }
UnitNormals == { <<0, 0, 1>>, <<0, 0, -1>>, <<0, 1, 0>>, <<1, 0, 0>> }
RandomDraws == { <<0, 1>>, <<1, 4000>>, <<1, 2>>, <<999, 1000>> }
RefractiveIndices == { One }

\* Dielectric::sample, up to the choice of the scattered direction
DielectricSample(refractive_index, direction, normal, rnd) ==
    /\ call = NoCall
    /\ call' = [fn |-> "dielectric_sample", refractive_index |-> refractive_index,
                direction |-> QVec(direction), normal |-> QVec(normal), rnd |-> rnd,
                result |-> DielectricScatter(refractive_index, QVec(direction),
                                             QVec(normal), rnd)]
    /\ UNCHANGED <<scene_vars, render_vars, mix_vars, path>>

\* the sample counts that a render may ask for: 0 .. MaxSamples
MaxSamples == 30

\* monte_carlo::square_spp: the square root rounded up
SqrtCeil(samples) ==
    IF ISqrt(samples) * ISqrt(samples) = samples THEN ISqrt(samples) ELSE ISqrt(samples) + 1
\* the cells (i, j) of the two loops over 0..sqrt_n of one pixel
SampleCellsRoundedUp(samples) ==
    (0 .. SqrtCeil(samples) - 1) \X (0 .. SqrtCeil(samples) - 1)
SampleCells(samples) == (0 .. SqrtN(samples) - 1) \X (0 .. SqrtN(samples) - 1)
\* raytrace_chunk: ns = sqrt_n * sqrt_n, the divisor of the pixel mean (pss = 1 / ns)
PixelDivisor(samples) == SqrtN(samples) * SqrtN(samples)

\* raytrace_chunk, for one pixel: the samples taken and the divisor of the mean
RaytracePixel(samples) ==
    /\ call = NoCall
    /\ call' = [fn |-> "raytrace_chunk", samples |-> samples,
                taken |-> Cardinality(SampleCells(samples)),
                divisor |-> PixelDivisor(samples)]
    /\ UNCHANGED <<scene_vars, render_vars, mix_vars, path>>

\* roughness values in thousandths
Roughnesses == {-Infinity, -500, 0, 300, 999, 1000, 1001, 1500, Infinity, NaN}
\* a clamp of both ends
ClampedRoughness(roughness) ==
    IF FLess(roughness, 0) THEN 0 ELSE IF FLess(roughness, 1000) THEN roughness ELSE 1000
\* Metallic::new: roughness: if roughness < 1.0 { roughness } else { 1.0 }
StoredRoughness(roughness) == IF FLess(roughness, 1000) THEN roughness ELSE 1000

MetallicNew(roughness) ==
    /\ call = NoCall
    /\ call' = [fn |-> "Metallic::new", roughness |-> roughness,
                result |-> StoredRoughness(roughness)]
    /\ UNCHANGED <<scene_vars, render_vars, mix_vars, path>>

(***************************************************************************)
(* Transforms and instances of geometry, on exact fractions                *)
(***************************************************************************)
FracLeq(a, b) == ~FracLess(b, a)
FracMin(a, b) == IF FracLess(b, a) THEN b ELSE a
FracMax(a, b) == IF FracLess(a, b) THEN b ELSE a
\* f64::EPSILON, a positive duration below every difference of times of the model
F64Epsilon == <<1, 1000000>>
QMin(a, b) == <<FracMin(a[1], b[1]), FracMin(a[2], b[2]), FracMin(a[3], b[3])>>
QMax(a, b) == <<FracMax(a[1], b[1]), FracMax(a[2], b[2]), FracMax(a[3], b[3])>>
QMulEach(a, b) == <<FracMul(a[1], b[1]), FracMul(a[2], b[2]), FracMul(a[3], b[3])>>
QDivEach(a, b) == <<FracDiv(a[1], b[1]), FracDiv(a[2], b[2]), FracDiv(a[3], b[3])>>
QRay(origin, direction, time) == [origin |-> origin, direction |-> direction, time |-> time]
QPointAt(ray, t) == QAdd(ray.origin, QScale(ray.direction, t))

\* BBox::bounding and BBox::union: neither orders the ends of an interval
QBounding(lo, hi) ==
    [x |-> Interval(lo[1], hi[1]), y |-> Interval(lo[2], hi[2]), z |-> Interval(lo[3], hi[3])]
QBoxMin(b) == <<b.x.min, b.y.min, b.z.min>>
QBoxMax(b) == <<b.x.max, b.y.max, b.z.max>>
QUnion(a, b) == QBounding(QMin(QBoxMin(a), QBoxMin(b)), QMax(QBoxMax(a), QBoxMax(b)))
\* Interval::contains on each axis
QBoxContains(b, p) ==
    /\ FracLeq(b.x.min, p[1]) /\ FracLeq(p[1], b.x.max)
    /\ FracLeq(b.y.min, p[2]) /\ FracLeq(p[2], b.y.max)
    /\ FracLeq(b.z.min, p[3]) /\ FracLeq(p[3], b.z.max)

\* Mat3 * Vec3 and Mat3::transpose
MatMul(mat, v) == <<QDot(mat[1], v), QDot(mat[2], v), QDot(mat[3], v)>>
Transpose(mat) == [i \in 1..3 |-> [j \in 1..3 |-> mat[j][i]]]

\* an offset that follows the time beyond both ends of the interval
MoveOffsetUnclamped(start, end, time_start, time_end, time) ==
    QAdd(start, QScale(QSub(end, start),
                       FracDiv(FracSub(time, time_start),
                               FracMax(FracSub(time_end, time_start), F64Epsilon))))
\* Transform::move_offset
MoveOffset(start, end, time_start, time_end, time) ==
    LET duration == FracMax(FracSub(time_end, time_start), F64Epsilon)
        lerp_t == FracMax(Zero, FracMin(One, FracDiv(FracSub(time, time_start), duration)))
    IN QAdd(start, QScale(QSub(end, start), lerp_t))

OffsetOf(tr, time) == MoveOffset(tr.start, tr.end, tr.time_start, tr.time_end, time)

\* Transform::apply_point
ApplyPoint(tr, point, time) ==
    CASE tr.kind = "Rotate" -> MatMul(tr.mat, point)
      [] tr.kind = "Translate" -> QAdd(point, tr.offset)
      [] tr.kind = "Move" -> QAdd(point, OffsetOf(tr, time))
      [] tr.kind = "Scale" -> QMulEach(point, tr.factors)

\* an inverse that leaves the direction of the ray as it is
ApplyInverseToOrigin(tr, ray) ==
    CASE tr.kind = "Rotate" -> QRay(MatMul(Transpose(tr.mat), ray.origin), ray.direction, ray.time)
      [] tr.kind = "Translate" -> QRay(QSub(ray.origin, tr.offset), ray.direction, ray.time)
      [] tr.kind = "Scale" -> QRay(QDivEach(ray.origin, tr.factors), ray.direction, ray.time)
      [] tr.kind = "Move" ->
            QRay(QSub(ray.origin, OffsetOf(tr, ray.time)), ray.direction, ray.time)
\* Transform::apply_inverse
ApplyInverse(tr, ray) ==
    CASE tr.kind = "Rotate" ->
            QRay(MatMul(Transpose(tr.mat), ray.origin),
                 MatMul(Transpose(tr.mat), ray.direction), ray.time)
      [] tr.kind = "Translate" -> QRay(QSub(ray.origin, tr.offset), ray.direction, ray.time)
      [] tr.kind = "Scale" ->
            QRay(QDivEach(ray.origin, tr.factors), QDivEach(ray.direction, tr.factors),
                 ray.time)
      [] tr.kind = "Move" ->
            QRay(QSub(ray.origin, OffsetOf(tr, ray.time)), ray.direction, ray.time)

BoxCorners(b) ==
    { <<x, y, z>> : x \in {b.x.min, b.x.max}, y \in {b.y.min, b.y.max},
                    z \in {b.z.min, b.z.max} }
\* the least and the greatest of a set of fractions
FracLeast(fs) == CHOOSE f \in fs : \A g \in fs : FracLeq(f, g)
FracGreatest(fs) == CHOOSE f \in fs : \A g \in fs : FracLeq(g, f)

\* Transform::apply_bbox
ApplyBBox(tr, b) ==
    CASE tr.kind = "Translate" ->
            QBounding(QAdd(QBoxMin(b), tr.offset), QAdd(QBoxMax(b), tr.offset))
      [] tr.kind = "Scale" ->
            LET lo == QMulEach(QBoxMin(b), tr.factors)
                hi == QMulEach(QBoxMax(b), tr.factors)
            IN QBounding(QMin(lo, hi), QMax(lo, hi))
      [] tr.kind = "Rotate" ->
            LET rotated == { MatMul(tr.mat, corner) : corner \in BoxCorners(b) }
            IN QBounding([i \in 1..3 |-> FracLeast({ point[i] : point \in rotated })],
                         [i \in 1..3 |-> FracGreatest({ point[i] : point \in rotated })])
      [] tr.kind = "Move" ->
            QUnion(QBounding(QAdd(QBoxMin(b), tr.start), QAdd(QBoxMax(b), tr.start)),
                   QBounding(QAdd(QBoxMin(b), tr.end), QAdd(QBoxMax(b), tr.end)))

\* Sphere::new: the radius is stored as given
SphereNew(center, radius) == [center |-> center, radius |-> radius]
NoQHit == [hit |-> FALSE]
\* the first of the two roots that lies strictly between t_min and t_max
SphereRoot(a, b, discriminant, t_min, t_max) ==
    LET near == FracDiv(FracSub(FracNeg(b), FracSqrt(discriminant)), a)
        far == FracDiv(FracAdd(FracNeg(b), FracSqrt(discriminant)), a)
    IN IF FracLess(near, t_max) /\ FracLess(t_min, near) THEN <<near>>
       ELSE IF FracLess(far, t_max) /\ FracLess(t_min, far) THEN <<far>>
       ELSE <<>>
\* Sphere::hit
SphereHit(sphere, ray, t_min, t_max) ==
    LET oc == QSub(ray.origin, sphere.center)
        a == QDot(ray.direction, ray.direction)
        b == QDot(oc, ray.direction)
        c == FracSub(QDot(oc, oc), FracMul(sphere.radius, sphere.radius))
        discriminant == FracSub(FracMul(b, b), FracMul(a, c))
    IN IF FracLess(Zero, discriminant)
       THEN LET root == SphereRoot(a, b, discriminant, t_min, t_max)
            IN IF root = <<>> THEN NoQHit
               ELSE [hit |-> TRUE, t |-> root[1], point |-> QPointAt(ray, root[1])]
       ELSE NoQHit
\* Sphere::bounding_box
SphereBBox(sphere) ==
    LET radius_vec == <<sphere.radius, sphere.radius, sphere.radius>>
    IN QBounding(QSub(sphere.center, radius_vec), QAdd(sphere.center, radius_vec))

RECURSIVE ToWorldReversed(_, _, _)
\* the forward transforms applied from the last to the first
ToWorldReversed(transforms, point, time) ==
    IF transforms = <<>> THEN point
    ELSE ApplyPoint(Head(transforms), ToWorldReversed(Tail(transforms), point, time), time)
RECURSIVE ToWorld(_, _, _)
\* GeometryInstance::hit and to_world: apply_point of each transform, first to last
ToWorld(transforms, point, time) ==
    IF transforms = <<>> THEN point
    ELSE ToWorld(Tail(transforms), ApplyPoint(Head(transforms), point, time), time)
RECURSIVE ToLocal(_, _)
\* GeometryInstance::hit and to_local: apply_inverse of each transform, last to first
ToLocal(transforms, ray) ==
    IF transforms = <<>> THEN ray
    ELSE ToLocal(SubSeq(transforms, 1, Len(transforms) - 1),
                 ApplyInverse(transforms[Len(transforms)], ray))

\* GeometryInstance::hit over a sphere
GeometryInstanceHit(sphere, transforms, ray, t_min, t_max) ==
    LET maybe_hit == SphereHit(sphere, ToLocal(transforms, ray), t_min, t_max)
    IN IF ~maybe_hit.hit THEN NoQHit
       ELSE [hit |-> TRUE, ray |-> ray, t |-> maybe_hit.t,
             point |-> ToWorld(transforms, maybe_hit.point, ray.time)]
RECURSIVE FoldBBox(_, _)
FoldBBox(transforms, b) ==
    IF transforms = <<>> THEN b ELSE FoldBBox(Tail(transforms), ApplyBBox(Head(transforms), b))
\* GeometryInstance::bounding_box
GeometryInstanceBBox(sphere, transforms) == FoldBBox(transforms, SphereBBox(sphere))

\* the ray of the world that the transforms take to a ray of the instance: its
\* origin by to_world, its direction as the difference of two points, as generate does
WorldRay(transforms, ray) ==
    LET origin == ToWorld(transforms, ray.origin, ray.time)
    IN QRay(origin,
            QSub(ToWorld(transforms, QAdd(ray.origin, ray.direction), ray.time), origin),
            ray.time)

\* the transforms of the model: at most MaxTransforms of them on an instance
MaxTransforms == 2
RotateZ90 == <<QVec(<<0, -1, 0>>), QVec(<<1, 0, 0>>), QVec(<<0, 0, 1>>)>>
RotateX345 == <<QVec(<<1, 0, 0>>), <<Zero, <<3, 5>>, <<-4, 5>>>>, <<Zero, <<4, 5>>, <<3, 5>>>>>>
TransformCatalog ==
    { [kind |-> "Translate", offset |-> QVec(<<1, -2, 3>>)],
      [kind |-> "Rotate", mat |-> RotateZ90],
      [kind |-> "Rotate", mat |-> RotateX345],
      [kind |-> "Scale", factors |-> <<<<2, 1>>, <<-1, 1>>, <<1, 2>>>>],
      [kind |-> "Move", start |-> QVec(<<0, 0, 0>>), end |-> QVec(<<4, 0, -2>>),
       time_start |-> FracOf(1), time_end |-> FracOf(3)],
      [kind |-> "Move", start |-> QVec(<<1, 1, 0>>), end |-> QVec(<<0, 1, 5>>),
       time_start |-> FracOf(2), time_end |-> FracOf(2)] }
TransformLists == UNION { [1..n -> TransformCatalog] : n \in 0 .. MaxTransforms }
\* ray times before, inside and after the intervals of the moves
RayTimes == { FracOf(0), FracOf(2), <<5, 2>>, FracOf(5) }
\* rays of the instance's own space, each through the centre of the sphere
LocalRays ==
    { [origin |-> QVec(<<0, 0, 5>>), direction |-> QVec(<<0, 0, -1>>)],
      [origin |-> QVec(<<-6, 0, 8>>), direction |-> QVec(<<3, 0, -4>>)],
      [origin |-> QVec(<<0, 5, 0>>), direction |-> QVec(<<0, -5, 0>>)] }
Spheres == { SphereNew(QVec(<<0, 0, 0>>), FracOf(1)), SphereNew(QVec(<<0, 0, 0>>), FracOf(-1)),
             SphereNew(QVec(<<0, 0, 0>>), FracOf(2)) }
HitTMin == <<1, 1000>>
HitTMax == FracOf(F32Max)

\* GeometryInstance::hit and bounding_box of one instance for one ray
InstanceHit(sphere, transforms, local_ray, time) ==
    LET ray == WorldRay(transforms, QRay(local_ray.origin, local_ray.direction, time))
    IN /\ call = NoCall
 /\ call' = [fn |-> "GeometryInstance::hit", sphere |-> sphere,
                   transforms |-> transforms, ray |-> ray,
                   result |-> GeometryInstanceHit(sphere, transforms, ray, HitTMin, HitTMax),
                   bounding_box |-> GeometryInstanceBBox(sphere, transforms)]
       /\ UNCHANGED <<scene_vars, render_vars, mix_vars, path>>

\* a ray taken to the world by the transforms and back by their inverses
TransformRoundTrip(transforms, local_ray, time) ==
    LET ray == QRay(local_ray.origin, local_ray.direction, time)
        world == WorldRay(transforms, ray)
    IN /\ call = NoCall
 /\ call' = [fn |-> "round_trip", transforms |-> transforms, ray |-> ray,
                   world |-> world,
                   carried |-> ToLocal(transforms, QRay(world.origin, ray.direction, time)),
                   result |-> ToLocal(transforms, world)]
       /\ UNCHANGED <<scene_vars, render_vars, mix_vars, path>>

(***************************************************************************)
(* Geometry of no extent                                                   *)
(***************************************************************************)
QCross(a, b) ==
    <<FracSub(FracMul(a[2], b[3]), FracMul(a[3], b[2])),
      FracSub(FracMul(a[3], b[1]), FracMul(a[1], b[3])),
      FracSub(FracMul(a[1], b[2]), FracMul(a[2], b[1]))>>
NaNVector == <<<<NaN, 1>>, <<NaN, 1>>, <<NaN, 1>>>>
\* Vec3::normalize: each component divided by the length; 0 / 0 is NaN
QNormalize(a) == IF QLength(a) = Zero THEN NaNVector ELSE UnitVector(a)
\* Quad::new: normal = u.cross(&v).normalize(); nothing is checked
QuadNormal(u, v) == QNormalize(QCross(u, v))
\* Cube::build_faces: the edges u and v of the six faces
CubeFaceEdges(min, max) ==
    LET dx == <<FracSub(max[1], min[1]), Zero, Zero>>
        dy == <<Zero, FracSub(max[2], min[2]), Zero>>
        dz == <<Zero, Zero, FracSub(max[3], min[3])>>
    IN { <<dx, dy>>, <<QNeg(dx), dy>>, <<dz, dy>>, <<QNeg(dz), dy>>, <<dx, QNeg(dz)>>,
         <<dx, dz>> }
\* BBox::axis: panic!("Invalid axis index") for every index but 0, 1 and 2
BBoxAxisPanics(axis) == axis \notin {0, 1, 2}

\* the calls of the model on primitives, rays and boxes, with and without extent
GeometryCases ==
    { [fn |-> "Sphere::new", radius |-> r] : r \in {Zero, One} }
    \cup { [fn |-> "Sphere::hit", radius |-> r, origin |-> o, direction |-> d] :
             r \in {Zero, One}, o \in {QVec(<<0, 0, 5>>), QVec(<<0, 0, 0>>)},
             d \in {QVec(<<0, 0, -1>>), QVec(<<0, 0, 0>>), QVec(<<1, 0, 0>>)} }
    \cup { [fn |-> "Quad::new", u |-> u, v |-> v] :
             u \in {QVec(<<2, 0, 0>>), QVec(<<0, 0, 0>>)},
             v \in {QVec(<<0, 3, 0>>), QVec(<<0, 0, 0>>)} }
    \cup { [fn |-> "Cube::new", min |-> QVec(<<1, 1, 1>>), max |-> m] :
             m \in {QVec(<<1, 1, 1>>), QVec(<<2, 3, 4>>)} }
    \cup { [fn |-> "BBox::axis", axis |-> axis] : axis \in 0..4 }

\* what the call does: it returns a value, a value that holds NaN, a hit or a miss,
\* or it aborts the program
GeometryOutcome(c) ==
    CASE c.fn = "Sphere::new" -> "returned"
      [] c.fn = "Sphere::hit" ->
            IF SphereHit(SphereNew(QVec(<<0, 0, 0>>), c.radius),
                         QRay(c.origin, c.direction, Zero), <<1, 1000>>,
                         FracOf(F32Max)).hit
            THEN "hit" ELSE "miss"
      [] c.fn = "Quad::new" ->
            IF QuadNormal(c.u, c.v) = NaNVector THEN "non-finite" ELSE "returned"
      [] c.fn = "Cube::new" ->
            IF \E e \in CubeFaceEdges(QMin(c.min, c.max), QMax(c.min, c.max)) :
                   QuadNormal(e[1], e[2]) = NaNVector
            THEN "non-finite" ELSE "returned"
      [] c.fn = "BBox::axis" -> IF BBoxAxisPanics(c.axis) THEN "abort" ELSE "returned"

GeometryCall(c) ==
    /\ call = NoCall
    /\ call' = [fn |-> c.fn, input |-> c, outcome |-> GeometryOutcome(c)]
    /\ UNCHANGED <<scene_vars, render_vars, mix_vars, path>>

(***************************************************************************)
(* Bounding boxes of the primitives and BBox::new                          *)
(***************************************************************************)
\* Cube::new: the two corners ordered on each axis, and the box between them
CubeNew(min, max) ==
    LET min_point == QMin(min, max)
        max_point == QMax(min, max)
    IN [min |-> min_point, max |-> max_point, bbox |-> QBounding(min_point, max_point)]
\* Cube::bounding_box
CubeBBox(cube) == cube.bbox

CubeCorners == { QVec(<<0, 0, 0>>), QVec(<<2, 3, 1>>), QVec(<<-1, 4, -2>>) }
Primitives ==
    { [kind |-> "Sphere", sphere |-> sphere] : sphere \in Spheres }
        \cup { [kind |-> "Cube", cube |-> CubeNew(a, b)] : a \in CubeCorners, b \in CubeCorners }

\* bounding_box of one primitive
PrimitiveBoundingBox(primitive) ==
    /\ call = NoCall
    /\ call' = [fn |-> "bounding_box", primitive |-> primitive,
                result |-> IF primitive.kind = "Sphere" THEN SphereBBox(primitive.sphere)
                           ELSE CubeBBox(primitive.cube)]
    /\ UNCHANGED <<scene_vars, render_vars, mix_vars, path>>

\* the intervals given to BBox::new: empty, a point, one unit long, longer
NewIntervals == { IntervalEmpty, Interval(0, 0), Interval(0, 1), Interval(-2, 3) }

\* BBox::new
BBoxNewCall(x, y, z) ==
    /\ call = NoCall
    /\ call' = [fn |-> "BBox::new", x |-> x, y |-> y, z |-> z, result |-> BBoxNew(x, y, z)]
    /\ UNCHANGED <<scene_vars, render_vars, mix_vars, path>>

(***************************************************************************)
(* The moving sphere (primitives/sphere.rs)                                *)
(***************************************************************************)
\* Sphere::moving: the centre is a ray from center_start towards center_end
\* whose time is the length of the interval
SphereMoving(center_start, center_end, time_start, time_end, radius) ==
    [center |-> QRay(center_start, QSub(center_end, center_start),
                     FracSub(time_end, time_start)),
     radius |-> radius]
\* the centre of the sphere at the time of a ray
CurrentCenter(sphere, time) ==
    IF sphere.center.time = Zero THEN sphere.center.origin
    ELSE QAdd(sphere.center.origin,
              QScale(sphere.center.direction, FracDiv(time, sphere.center.time)))
\* Sphere::hit of the moving sphere
MovingSphereHit(sphere, ray, t_min, t_max) ==
    SphereHit(SphereNew(CurrentCenter(sphere, ray.time), sphere.radius), ray, t_min, t_max)
\* Sphere::bounding_box of the moving sphere
MovingSphereBBox(sphere) ==
    LET radius_vec == <<sphere.radius, sphere.radius, sphere.radius>>
        at0 == QPointAt(sphere.center, Zero)
        at1 == QPointAt(sphere.center, One)
    IN QUnion(QBounding(QSub(at0, radius_vec), QAdd(at0, radius_vec)),
              QBounding(QSub(at1, radius_vec), QAdd(at1, radius_vec)))

\* the intervals <<time_start, time_end>> of the moving spheres of the model
MoveIntervals ==
    { <<Zero, One>>, <<Zero, <<1, 2>>>>, <<Zero, FracOf(2)>>, <<One, One>>,
      <<One, FracOf(2)>>, <<One, Zero>> }
\* ray times in [0, 1]
UnitRayTimes == { Zero, <<1, 2>>, One }

\* hit and bounding_box of one moving sphere, for a ray through the place of
\* the sphere at the time of the ray
MovingHit(interval, local_ray, time) ==
    LET sphere == SphereMoving(QVec(<<0, 0, 0>>), QVec(<<4, 0, 0>>),
                               interval[1], interval[2], One)
        ray == QRay(QAdd(CurrentCenter(sphere, time), local_ray.origin),
                    local_ray.direction, time)
    IN /\ call = NoCall
       /\ call' = [fn |-> "Sphere::moving", sphere |-> sphere, interval |-> interval,
                   ray |-> ray,
                   result |-> MovingSphereHit(sphere, ray, HitTMin, HitTMax),
                   bounding_box |-> MovingSphereBBox(sphere)]
       /\ UNCHANGED <<scene_vars, render_vars, mix_vars, path>>

(***************************************************************************)
(* The calls of the model: a behaviour makes one of them                   *)
(***************************************************************************)
CallsNext ==
    \/ \E primitive \in Primitives : PrimitiveBoundingBox(primitive)
    \/ \E x \in NewIntervals, y \in NewIntervals, z \in NewIntervals : BBoxNewCall(x, y, z)
    \/ \E interval \in MoveIntervals, local_ray \in LocalRays, time \in UnitRayTimes :
            MovingHit(interval, local_ray, time)
    \/ \E refractive_index \in RefractiveIndices, direction \in Directions,
          normal \in UnitNormals, rnd \in RandomDraws :
            DielectricSample(refractive_index, direction, normal, rnd)
    \/ \E samples \in 0 .. MaxSamples : RaytracePixel(samples)
    \/ \E roughness \in Roughnesses : MetallicNew(roughness)
    \/ \E sphere \in Spheres, transforms \in TransformLists, local_ray \in LocalRays,
          time \in RayTimes : InstanceHit(sphere, transforms, local_ray, time)
    \/ \E transforms \in TransformLists, local_ray \in LocalRays, time \in RayTimes :
            TransformRoundTrip(transforms, local_ray, time)
    \/ \E c \in GeometryCases : GeometryCall(c)

\* nothing has been called yet
InitCalls ==
    /\ objects = <<>>
    /\ list_bbox = RenderableListNewBBox
    /\ bvh = NoBvh
    /\ probe = NoProbe
    /\ render = [width |-> 0, height |-> 0, samples |-> 0]
    /\ executor = "none"
    /\ num_threads = 0
    /\ pc = "idle"
    /\ bands = <<>>
    /\ worker = <<>>
    /\ chunks = <<>>
    /\ image = NoImage
    /\ draws = {}
    /\ mixes = <<>>
    /\ supplied = <<>>
    /\ total_seen = Zero
    /\ path = NoPath
    /\ call = NoCall

SpecCalls == InitCalls /\ [][CallsNext]_vars

(***************************************************************************)
(* C1: through the built BVH, the nearest-hit query returns a hit exactly  *)
(* when the linear scan over the same renderables returns one, and both    *)
(* report the same hit distance t.                                         *)
(***************************************************************************)
\* the scan of every renderable the tree owns, with no box test in front
BruteForce(p) == ScanFrom(bvh.objects, 1, p.ray, p.t_min, p.t_max, NoHit)

C1_BvhEqualsLinearScan ==
    (probe.asked /\ bvh.built) =>
        LET brute == BruteForce(probe)
        IN /\ probe.hit.hit = brute.hit
           /\ probe.hit.hit => probe.hit.t = brute.t

(***************************************************************************)
(* Properties of the render                                                *)
(***************************************************************************)
\* every band the executor hands out has been made
BandsMade ==
    \/ executor = "rayon" /\ pc \in {"par_iter", "assemble", "done", "fatal"}
    \/ executor = "threaded" /\ pc \in {"join", "unwind", "assemble", "done", "fatal"}

BandsWellFormed(bs, h) ==
    /\ Len(bs) >= 1
    /\ \A i \in DOMAIN bs : bs[i].y_start <= bs[i].y_end /\ bs[i].y_end <= h
    /\ bs[1].y_start = 0
    /\ \A i \in 1..(Len(bs) - 1) : bs[i].y_end = bs[i + 1].y_start
    /\ bs[Len(bs)].y_end = h
    /\ \A i \in 1..(Len(bs) - 1) : ChunkHeight(bs[i]) = ChunkHeight(bs[1])
    /\ ChunkHeight(bs[Len(bs)]) <= ChunkHeight(bs[1])

(***************************************************************************)
(* C2: the row-bands of both executors are well-formed                     *)
(* (y_start <= y_end <= h), contiguous, pairwise disjoint, cover exactly   *)
(* the rows 0..h-1, and only the last band may be shorter than the others. *)
(***************************************************************************)
C2_BandsPartitionRows == BandsMade => BandsWellFormed(bands, render.height)

(***************************************************************************)
(* C3: after assemble_chunks the buffer has w*h*3 bytes and every byte of  *)
(* every destination row has been written exactly once.                    *)
(***************************************************************************)
C3_EveryRowWrittenOnce ==
    pc = "done" =>
        /\ image.built
        /\ Len(image.px) = render.width * render.height * 3
        /\ \A k \in DOMAIN image.px : image.px[k].writes = 1

C3_Witness ==
    /\ pc = "done" /\ executor = "threaded" /\ Len(chunks) >= 2
    /\ ChunkHeight(bands[Len(bands)]) < ChunkHeight(bands[1])

(***************************************************************************)
(* C4: the threaded render stores, at every offset of the buffer, the      *)
(* pixel the single-threaded render stores there: the same viewport cell   *)
(* of the full frame, with the same number of samples.                     *)
(***************************************************************************)
Values(px) == [k \in DOMAIN px |-> px[k].val]

C4_ThreadedEqualsSingle ==
    (pc = "done" /\ executor \in {"rayon", "threaded"}) =>
        Values(image.px) = Values(Raytrace(render).px)

C4_Witness ==
    /\ pc = "done" /\ executor = "threaded" /\ Len(chunks) >= 2
    /\ render.width = 2 /\ render.height >= 3 /\ render.samples = 5

(***************************************************************************)
(* C5: assemble_chunks does not start, and the render does not return,     *)
(* while a worker is still rendering (or has yet to start).                *)
(***************************************************************************)
C5_AssembleAfterAllWorkers ==
    pc \in {"assemble", "done"} =>
        \A i \in DOMAIN worker : worker[i].state \in {"done", "panicked"}

C5_Witness ==
    /\ pc = "assemble" /\ executor \in {"rayon", "threaded"}
    /\ Len(worker) >= 2
    /\ \A i \in DOMAIN worker : worker[i].y > bands[i].y_start

(***************************************************************************)
(* C6: no two threads draw from the same random source, no band is         *)
(* rendered by two threads, and a finished band holds all of its rows.     *)
(***************************************************************************)
C6_OwnRandomSourcePerWorker ==
    /\ \A d1, d2 \in draws : d1.source = d2.source => d1.thread = d2.thread
    /\ \A d1, d2 \in draws : d1.band = d2.band => d1.thread = d2.thread
    /\ \A i \in DOMAIN worker :
          (worker[i].state = "done" /\ ~HeightOverflows(bands[i])) =>
              worker[i].data = RaytraceChunk(render, bands[i]).data

C6_Witness ==
    /\ \E d1, d2 \in draws : d1.thread # d2.thread
    /\ \E i, j \in DOMAIN worker :
          i # j /\ worker[i].state = "running" /\ worker[j].state = "running"
             /\ worker[i].y > bands[i].y_start /\ worker[j].y > bands[j].y_start

(***************************************************************************)
(* C7: the scene was built before any worker started, and no step taken    *)
(* while a worker has started changes the renderable list or the BVH.      *)
(***************************************************************************)
WorkerStarted == \E i \in DOMAIN worker : worker[i].state # "idle"

C7_SceneFrozenWhileRendering ==
    /\ [](WorkerStarted => pc # "load")
    /\ [][WorkerStarted => <<objects, list_bbox, bvh>>' = <<objects, list_bbox, bvh>>]_vars

C7_Witness ==
    /\ bvh.built
    /\ \E i \in DOMAIN worker : worker[i].state = "running" /\ worker[i].y > bands[i].y_start

(***************************************************************************)
(* C8: once a worker has failed, no buffer is assembled or returned, the   *)
(* failed band stays failed (it is not rendered again), and the render can *)
(* only stop in the fatal condition.                                       *)
(***************************************************************************)
SomeWorkerFailed == \E i \in DOMAIN worker : worker[i].state = "panicked"

C8_WorkerFailureIsFatal ==
    /\ [](SomeWorkerFailed => (pc \notin {"assemble", "done"} /\ ~image.built))
    /\ [][\A i \in DOMAIN worker :
             worker[i].state = "panicked" => worker'[i] = worker[i]]_vars
    /\ []((SomeWorkerFailed /\ ~ENABLED RenderNext) => pc = "fatal")

C8_Witness ==
    /\ pc = "fatal" /\ executor = "threaded"
    /\ \E i, j \in DOMAIN worker :
          worker[i].state = "panicked" /\ worker[j].state = "done"

(***************************************************************************)
(* Properties of the mixture                                               *)
(***************************************************************************)
(***************************************************************************)
(* C9 as stated: after one or more add calls, whatever the weights         *)
(* supplied, the stored weights sum to 1.                                  *)
(***************************************************************************)
C9_WeightsSumToOne == Len(mixes) >= 1 => FracSum(mixes) = One

(***************************************************************************)
(* C9 as amended: after an add call whose balance saw a positive total     *)
(* (the weights stored before it plus the new weight) the stored weights   *)
(* sum to 1; after one that saw a total of zero or less they are left as   *)
(* pushed, and sum to that total.                                          *)
(***************************************************************************)
C9_PositiveTotalSumsToOne ==
    Len(mixes) >= 1 =>
        IF FracLess(Zero, total_seen)
        THEN FracSum(mixes) = One
        ELSE FracSum(mixes) = total_seen

C9_Witness ==
    /\ Len(mixes) = 3 /\ FracLess(Zero, total_seen)
    /\ supplied[1] # supplied[2] /\ supplied[2] # supplied[3]
    /\ mixes[1] # mixes[2]

(***************************************************************************)
(* C10: a mixture built by add(material, 1/2) and then add(light, 1/(2n))  *)
(* for each of n >= 1 lights gives the material the weight 1/2 and each    *)
(* light the weight 1/(2n) in value; with no lights the material has       *)
(* weight 1.                                                               *)
(***************************************************************************)
Half == <<1, 2>>
LightMixtureOf(n) == <<Half>> \o [i \in 1..n |-> Frac(1, 2 * n)]
UnitDensity(n, i) == [k \in 1..n |-> IF k = i THEN One ELSE Zero]

C10_LightMixtureWeights ==
    /\ supplied = <<Half>> => MixtureValue(mixes, <<One>>) = One
    /\ \A n \in 1..(MaxMixes - 1) :
          supplied = LightMixtureOf(n) =>
              /\ MixtureValue(mixes, UnitDensity(n + 1, 1)) = Half
              /\ \A i \in 2..(n + 1) :
                    MixtureValue(mixes, UnitDensity(n + 1, i)) = Frac(1, 2 * n)

(***************************************************************************)
(* Properties of the light path                                            *)
(***************************************************************************)
PathRunning == path.state \in {"query", "sample", "return"}
Scattered == Len(path'.stack) > Len(path.stack)

(***************************************************************************)
(* C11: the trace of a camera ray ends; each scatter lowers the remaining  *)
(* depth by exactly one and none happens at depth 0; at most limit + 1     *)
(* scene queries are made; the path ends by no-hit, exhausted depth, a     *)
(* zero pdf or a material that does not scatter.                           *)
(***************************************************************************)
C11_PathTerminates ==
    /\ PathRunning ~> (path.state = "ended")
    /\ [][Scattered => (path.depth > 0 /\ path'.depth = path.depth - 1)]_vars
    /\ [](path.queries <= path.limit + 1)
    /\ [](path.state \in {"query", "sample"} =>
             path.depth + Len(path.stack) = path.limit)
    /\ [](path.state = "ended" =>
             path.ended_by \in {"no-hit", "depth", "zero-pdf", "non-scattering"})

C11_Witness ==
    /\ path.state = "ended" /\ path.limit = MaxDepth
    /\ path.queries = MaxDepth + 1 /\ path.ended_by = "depth"

(***************************************************************************)
(* C12: every density the light path has divided by is greater than zero.  *)
(***************************************************************************)
C12_DivisorsArePositive == \A pdf \in path.divisors : FGreater(pdf, 0)

(***************************************************************************)
(* Properties of single calls                                              *)
(***************************************************************************)
(***************************************************************************)
(* C13: a dielectric of refractive index 1 scatters every ray in its own   *)
(* (unit) incident direction, whatever the normal and the random draw.     *)
(***************************************************************************)
C13_IndexOneTransmitsUndeviated ==
    (call.fn = "dielectric_sample" /\ call.refractive_index = One) =>
        call.result = UnitVector(call.direction)

(***************************************************************************)
(* C14: the samples taken for a pixel, and the divisor of its mean, are    *)
(* the perfect square nearest to the requested count.                      *)
(***************************************************************************)
IsSquare(q) == ISqrt(q) * ISqrt(q) = q
Distance(a, b) == IF a < b THEN b - a ELSE a - b
NearestSquare(s) ==
    CHOOSE q \in 0 .. 4 * (s + 1) :
        /\ IsSquare(q)
        /\ \A p \in 0 .. 4 * (s + 1) : IsSquare(p) => Distance(q, s) <= Distance(p, s)
C14_NearestPerfectSquare ==
    call.fn = "raytrace_chunk" =>
        /\ call.taken = NearestSquare(call.samples)
        /\ call.divisor = call.taken
(***************************************************************************)
(* C14, as the code has it: the samples taken, and the divisor, are the    *)
(* largest perfect square not above the requested count (at least 1).      *)
(***************************************************************************)
C14_LargestSquareNotAbove ==
    call.fn = "raytrace_chunk" =>
        LET asked == IF call.samples < 1 THEN 1 ELSE call.samples
        IN /\ IsSquare(call.taken)
           /\ call.taken <= asked
           /\ \A q \in 0 .. asked : IsSquare(q) => q <= call.taken
           /\ call.divisor = call.taken
C14_Witness ==
    call.fn = "raytrace_chunk" /\ call.samples = 8 /\ call.taken = 4 /\ call.divisor = 4

(***************************************************************************)
(* C19: the roughness that Metallic::new stores lies between 0 and 1.      *)
(***************************************************************************)
C19_RoughnessClamped ==
    call.fn = "Metallic::new" => (0 <= call.result /\ call.result <= 1000)

(***************************************************************************)
(* C15: every hit point that an instance of geometry returns lies inside   *)
(* the box that its bounding_box returns, whatever the transforms and the  *)
(* time of the ray.                                                        *)
(***************************************************************************)
C15_HitPointInsideBoundingBox ==
    (call.fn = "GeometryInstance::hit" /\ call.result.hit) =>
        QBoxContains(call.bounding_box, call.result.point)
\* the same for the spheres of positive radius alone
HitInsideBoxOfPositiveSphere ==
    (call.fn = "GeometryInstance::hit" /\ call.result.hit
        /\ FracLess(Zero, call.sphere.radius)) =>
        QBoxContains(call.bounding_box, call.result.point)

(***************************************************************************)
(* C16: a ray whose origin is taken forward by the transforms and, its     *)
(* direction left as it was, back by their inverses in reverse order is    *)
(* the ray it was: origin, direction and time.                             *)
(***************************************************************************)
C16_CarriedRayReproduced == call.fn = "round_trip" => call.carried = call.ray
(***************************************************************************)
(* C16, as the code has it: the inverses in reverse order give back the    *)
(* origin and the time, and they give back the direction when it went      *)
(* forward as the difference of two points taken forward.                  *)
(***************************************************************************)
C16_RoundTripReproducesRay ==
    call.fn = "round_trip" =>
        /\ call.result = call.ray
        /\ call.carried.origin = call.ray.origin
        /\ call.carried.time = call.ray.time
C16_Witness ==
    /\ call.fn = "round_trip" /\ Len(call.transforms) = 2
    /\ call.transforms[1].kind = "Rotate" /\ call.transforms[2].kind = "Move"
    /\ call.world.origin # call.ray.origin /\ call.world.direction # call.ray.direction
    /\ call.result = call.ray

(***************************************************************************)
(* C18: geometry of no extent, a ray direction of no length and an axis    *)
(* index outside 0, 1, 2 abort the program.                                *)
(***************************************************************************)
Degenerate(c) ==
    CASE c.fn = "Sphere::new" -> c.radius = Zero
      [] c.fn = "Sphere::hit" -> c.radius = Zero \/ c.direction = QVec(<<0, 0, 0>>)
      [] c.fn = "Quad::new" -> QVec(<<0, 0, 0>>) \in {c.u, c.v}
      [] c.fn = "Cube::new" -> c.min = c.max
      [] c.fn = "BBox::axis" -> c.axis \notin {0, 1, 2}
C18_DegenerateIsFatal ==
    (call.fn \in {"Sphere::new", "Sphere::hit", "Quad::new", "Cube::new", "BBox::axis"}
        /\ Degenerate(call.input)) => call.outcome = "abort"

(***************************************************************************)
(* C17: add_object on a scene whose BVH is built leaves no BVH and a list  *)
(* that holds each renderable of the tree once and the new one; a query    *)
(* that follows answers as over a list that was never built.               *)
(***************************************************************************)
Count(seq, x) == Cardinality({ i \in DOMAIN seq : seq[i] = x })
SameRenderables(a, b) ==
    /\ Len(a) = Len(b)
    /\ \A i \in DOMAIN a : Count(a, a[i]) = Count(b, a[i])
AddedAfterBuild == bvh.built /\ call'.fn = "add_object" /\ <<objects, bvh>>' # <<objects, bvh>>
OutputRow(k) == (k - 1) \div (render.width * 3)
C20_FlippedOnce ==
    pc = "done" =>
        \A k \in DOMAIN image.px :
            image.px[k].val.cell.y = render.height - 1 - OutputRow(k)
C20_Witness ==
    /\ pc = "done" /\ executor = "rayon" /\ Len(chunks) >= 2 /\ render.height >= 3
    /\ image.px[1].val.cell.y = render.height - 1
    /\ image.px[Len(image.px)].val.cell.y = 0

(***************************************************************************)
(* Properties of the built BVH                                             *)
(***************************************************************************)
RECURSIVE LeafIndices(_)
\* the indices of the leaves beneath a node, left to right
LeafIndices(node) ==
    IF node.kind = "Leaf" THEN <<node.index>>
    ELSE LeafIndices(node.left) \o LeafIndices(node.right)
RECURSIVE BranchesOf(_)
\* the Branch nodes of a tree
BranchesOf(node) ==
    IF node.kind = "Leaf" THEN {}
    ELSE {node} \cup BranchesOf(node.left) \cup BranchesOf(node.right)
BoxInside(inner, outer) ==
    /\ outer.x.min <= inner.x.min /\ inner.x.max <= outer.x.max
    /\ outer.y.min <= inner.y.min /\ inner.y.max <= outer.y.max
    /\ outer.z.min <= inner.z.min /\ inner.z.max <= outer.z.max
Range(seq) == { seq[i] : i \in DOMAIN seq }

(***************************************************************************)
(* C21: the tree that build_bvh made is the tree that a build over the     *)
(* same list makes from every state of the random generator.               *)
(***************************************************************************)
C21_BuildIndependentOfRng ==
    bvh.built => \A rng \in RngStates : BvhNew(rng, bvh.objects) = bvh
C21_Witness ==
    /\ bvh.built /\ Len(bvh.objects) = MaxObjects
    /\ bvh.root.kind = "Branch" /\ bvh.root.right.kind = "Branch"
    /\ LeafIndices(bvh.root) # [i \in 1..MaxObjects |-> i]

(***************************************************************************)
(* C22: the tree over n renderables has n leaves, their indices are the    *)
(* n positions of the list, each once, and a Branch over k leaves has      *)
(* floor(k/2) of them on its left and the others on its right.             *)
(***************************************************************************)
C22_LeavesArePermutation ==
    bvh.built =>
        /\ Len(LeafIndices(bvh.root)) = Len(bvh.objects)
        /\ Range(LeafIndices(bvh.root)) = DOMAIN bvh.objects
        /\ \A b \in BranchesOf(bvh.root) :
              /\ Len(LeafIndices(b.left)) = Len(LeafIndices(b)) \div 2
              /\ Len(LeafIndices(b.right)) =
                     Len(LeafIndices(b)) - Len(LeafIndices(b)) \div 2
C22_Witness ==
    /\ bvh.built /\ Len(bvh.objects) = 3
    /\ Len(LeafIndices(bvh.root.left)) = 1 /\ Len(LeafIndices(bvh.root.right)) = 2
    /\ bvh.root.left.index # 1

(***************************************************************************)
(* C23: the box of every Branch is the union of the boxes of its two       *)
(* children and holds the box of every renderable beneath it, and the      *)
(* leaves are split along an axis on which the union box is longest.       *)
(***************************************************************************)
AxisMin(b, i, axis) == BBoxAxis(RenderableBBox(b.objects[i]), axis).min
SplitAlong(b, node, axis) ==
    /\ \A other \in 0..2 :
          IntervalLength(BBoxAxis(node.bounding_box, other))
              <= IntervalLength(BBoxAxis(node.bounding_box, axis))
    /\ \A l \in Range(LeafIndices(node.left)), r \in Range(LeafIndices(node.right)) :
          AxisMin(b, l, axis) <= AxisMin(b, r, axis)
C23_BranchBoxIsUnion ==
    bvh.built =>
        \A node \in BranchesOf(bvh.root) :
            /\ node.bounding_box =
                   BBoxUnion(node.left.bounding_box, node.right.bounding_box)
            /\ \A i \in Range(LeafIndices(node)) :
                  BoxInside(RenderableBBox(bvh.objects[i]), node.bounding_box)
            /\ \E axis \in 0..2 : SplitAlong(bvh, node, axis)
C23_Witness ==
    /\ bvh.built /\ Len(bvh.objects) = MaxObjects
    /\ bvh.root.kind = "Branch" /\ bvh.root.left.kind = "Leaf"
    /\ bvh.root.bounding_box # bvh.root.right.bounding_box
    /\ IntervalLength(bvh.root.bounding_box.z) > IntervalLength(bvh.root.bounding_box.x)

(***************************************************************************)
(* C26: build_bvh on a scene whose BVH is built leaves the scene with the  *)
(* renderables it had and with the answers it gave.                        *)
(***************************************************************************)
BuiltAgain == bvh.built /\ call'.fn = "build_bvh" /\ call.fn = "build_bvh"
C26_BuildIsIdempotent ==
    [][BuiltAgain =>
          /\ SceneSize(TheScene') = SceneSize(TheScene)
          /\ \A ray \in ProbeRays, t_min \in ProbeTMin, t_max \in ProbeTMax :
                SceneHit(objects', list_bbox', bvh', ray, t_min, t_max)
                    = SceneHit(objects, list_bbox, bvh, ray, t_min, t_max)]_vars

(***************************************************************************)
(* C27: in a scene that holds a background, a ray that hits a renderable   *)
(* other than the background in the interval of the query gets a           *)
(* renderable other than the background as its answer; the background is   *)
(* the answer only when nothing else is hit and t_max is f32::MAX.         *)
(***************************************************************************)
AllRenderables == IF bvh.built THEN bvh.objects ELSE objects
HitsGeometry(p) ==
    \E i \in DOMAIN AllRenderables :
        /\ ~IsWorld(AllRenderables[i])
        /\ RenderableHit(AllRenderables[i], p.ray, p.t_min, p.t_max).hit
AnswerIsWorld(p) == p.hit.hit /\ IsWorld(AllRenderables[p.hit.index])
C27_BackgroundNeverOccludes ==
    (probe.asked /\ \E i \in DOMAIN AllRenderables : IsWorld(AllRenderables[i])) =>
        /\ HitsGeometry(probe) => (probe.hit.hit /\ ~AnswerIsWorld(probe))
        /\ AnswerIsWorld(probe) => (~HitsGeometry(probe) /\ probe.t_max = F32Max)
\* the same for the queries that go through the list
BackgroundNeverOccludesInList == bvh.built \/ C27_BackgroundNeverOccludes

(***************************************************************************)
(* C24: a hit of an instance is at the point of the ray it was asked       *)
(* about, origin + t * direction for the t it returns, for every list of   *)
(* transforms, and it carries that ray and its time unchanged.             *)
(***************************************************************************)
C24_HitPointOnOriginalRay ==
    (call.fn = "GeometryInstance::hit" /\ call.result.hit) =>
        /\ call.result.point = QPointAt(call.ray, call.result.t)
        /\ call.result.ray = call.ray
        /\ call.result.ray.time = call.ray.time
C24_Witness ==
    /\ call.fn = "GeometryInstance::hit" /\ call.result.hit
    /\ Len(call.transforms) = 2
    /\ call.transforms[1].kind = "Scale" /\ call.transforms[2].kind = "Move"
    /\ call.ray.time = <<5, 2>>
    /\ call.result.point = QPointAt(call.ray, call.result.t)

(***************************************************************************)
(* C25: generate on a mixture with components makes one draw r and calls   *)
(* the generate of one component: component i with the cumulative weight   *)
(* before i at most r and r below the cumulative weight through i, or the  *)
(* last component when r is below no cumulative weight.                    *)
(***************************************************************************)
CumulativeWeight(ws, i) == FracSum(SubSeq(ws, 1, i))
InShare(ws, r, i) ==
    FracLeq(CumulativeWeight(ws, i - 1), r) /\ FracLess(r, CumulativeWeight(ws, i))
NoWeightNegative(ws) == \A i \in DOMAIN ws : FracLeq(Zero, ws[i])
C25_FallbackWitness ==
    /\ call.fn = "generate" /\ Len(call.weights) = 2 /\ NoWeightNegative(call.weights)
    /\ FracLeq(CumulativeWeight(call.weights, 2), call.r) /\ call.result.delegated = <<2>>
\* the converse without the condition on the signs: with a negative weight the
\* cumulative weights fall again and the shares of two components overlap
SharesWithAnyWeights ==
    (call.fn = "generate" /\ call.weights # <<>>) =>
        /\ \A i \in DOMAIN call.weights :
              InShare(call.weights, call.r, i) => call.result.delegated = <<i>>
        /\ FracLeq(CumulativeWeight(call.weights, Len(call.weights)), call.r) =>
              call.result.delegated = <<Len(call.weights)>>

(***************************************************************************)
(* C28: the bounding box of every primitive has min <= max on each axis,   *)
(* for a sphere of negative radius and a cube given its corners in either  *)
(* order too.                                                              *)
(***************************************************************************)
QBoxWellFormed(b) ==
    /\ FracLeq(b.x.min, b.x.max) /\ FracLeq(b.y.min, b.y.max) /\ FracLeq(b.z.min, b.z.max)
C28_BoundingBoxWellFormed == call.fn = "bounding_box" => QBoxWellFormed(call.result)
\* the boxes of the cubes and of the spheres whose radius is not negative
WellFormedUnlessNegativeRadius ==
    (call.fn = "bounding_box" /\ ~QBoxWellFormed(call.result)) =>
        (call.primitive.kind = "Sphere" /\ FracLess(call.primitive.sphere.radius, Zero))

(***************************************************************************)
(* C29: every hit of a moving sphere by a ray whose time is in [0, 1] is   *)
(* at a point inside the bounding box of the sphere, whatever time_start   *)
(* and time_end the sphere was built with.                                 *)
(***************************************************************************)
C29_MovingHitInsideBoundingBox ==
    (call.fn = "Sphere::moving" /\ call.result.hit) =>
        QBoxContains(call.bounding_box, call.result.point)
\* the same for the spheres whose interval is at least one unit long, or empty
InsideWhenIntervalCoversUnit ==
    (call.fn = "Sphere::moving" /\ call.result.hit
        /\ (call.sphere.center.time = Zero \/ FracLeq(One, call.sphere.center.time))) =>
        QBoxContains(call.bounding_box, call.result.point)

(***************************************************************************)
(* C30: a box made by BBox::new is at least 0.0001 long on every axis.     *)
(***************************************************************************)
C30_NewBoxIsPadded ==
    call.fn = "BBox::new" =>
        \A axis \in 0..2 : IntervalLength(BBoxAxis(call.result, axis)) >= PadDelta
\* BBox::new returns the intervals it was given
NewBoxIsAsGiven ==
    call.fn = "BBox::new" => call.result = [x |-> call.x, y |-> call.y, z |-> call.z]
====
